---- MODULE Spec2Model ----
(***************************************************************************)
(* Auto-Arcana-Wars: the stat model (utils.py), the resolution engine and  *)
(* the round / match loops (backend.py, new_code/auto_arcana_wars.py).     *)
(*                                                                         *)
(* Numbers.  The program computes with floats.  The model is fixed-point:  *)
(* every stat, damage and probability v is held as the integer Scale * v   *)
(* (one decimal place).  The inputs are chosen so that every product and   *)
(* quotient the code forms is exact at this resolution; ExactArithmetic    *)
(* states that, and it is an invariant of every specification below.       *)
(***************************************************************************)
EXTENDS Integers, Sequences, FiniteSets, TLC

VARIABLES
    \* --- Stats.add_stat_changes on its own (SpecStats)
    s_pc, s_base, s_delta, s_result,
    \* --- calculate_damage_taken / calculate_miss_chance on their own (SpecEngine)
    e_pc, e_damage, e_stats, e_hp_update, e_miss_chance,
    \* --- BaseCharacter.add_item on its own (SpecItems)
    i_pc, i_char, i_item_in, i_item,
    \* --- play_match / play_ranked
    mode, pc, match_idx, round, is_your_turn_first, first_mover_initial,
    your_wins, opponent_wins, rounds_played, match_result,
    \* --- play_round
    your_team, opponent_team, your_char_idx, opponent_char_idx,
    is_your_turn, is_round_your_win, alive_at_start,
    \* --- the last play_turn call
    last_turn,
    \* --- a second execution, fed the RNG results of the first (SpecReplay)
    replay,
    \* --- one bot and its driver (SpecBot, SpecStrategy)
    bot, team_data, is_initialized, bot_items, previous_character_ordering,
    current_round, assignment_dir, opponent_damage_dealers,
    team_damage_dealers, team_survivability, your_assignment,
    last_call, last_error,
    \* --- the lists the bot's caller holds (SpecOrdering)
    caller,
    \* --- the two bots of play_ranked (SpecRanked)
    ranked

stat_vars == <<s_pc, s_base, s_delta, s_result>>
engine_vars == <<e_pc, e_damage, e_stats, e_hp_update, e_miss_chance>>
item_vars == <<i_pc, i_char, i_item_in, i_item>>
match_vars == <<mode, match_idx, round, is_your_turn_first, first_mover_initial,
                your_wins, opponent_wins, rounds_played, match_result>>
round_vars == <<your_team, opponent_team, your_char_idx, opponent_char_idx,
                is_your_turn, is_round_your_win, alive_at_start>>
bot_vars == <<bot, team_data, is_initialized, bot_items, previous_character_ordering,
              current_round, assignment_dir, opponent_damage_dealers,
              team_damage_dealers, team_survivability, your_assignment,
              last_call, last_error, caller, ranked>>
vars == <<stat_vars, engine_vars, item_vars, match_vars, pc, round_vars, last_turn, replay, bot_vars>>

-----------------------------------------------------------------------------
(* Fixed point and small helpers                                           *)

Scale == 10

Min(a, b) == IF a < b THEN a ELSE b
Max(a, b) == IF a > b THEN a ELSE b
Abs(a) == IF a < 0 THEN 0 - a ELSE a

\* Scale * v for a whole number v of the source
Fx(v) == Scale * v

-----------------------------------------------------------------------------
(* utils.py: Stats                                                         *)

Stats(chp, thp, ar, mr, pp, mp, stc) ==
    [current_hp |-> chp, total_hp |-> thp, armor |-> ar,
     magic_resistance |-> mr, physical_power |-> pp, magic_power |-> mp,
     special_trigger_chance |-> stc]

\* Stats(): every field defaults to 0
ZeroStats == Stats(0, 0, 0, 0, 0, 0, 0)

\* min(max_val, max(min_val, new_stat)), utils.py line 75
normalized_stat(min_val, max_val, new_stat) == Min(max_val, Max(min_val, new_stat))

\* the same with max_val = math.inf
normalized_stat_inf(min_val, new_stat) == Max(min_val, new_stat)

\* mutant: total_hp .. magic_power lose their floor at 0
AddStatChangesNoFloor(stats, changes) ==
    LET total == stats.total_hp + changes.total_hp
    IN  Stats(normalized_stat(0, total, stats.current_hp + changes.current_hp),
              total,
              stats.armor + changes.armor,
              stats.magic_resistance + changes.magic_resistance,
              stats.physical_power + changes.physical_power,
              stats.magic_power + changes.magic_power,
              normalized_stat(0, Fx(100),
                  stats.special_trigger_chance + changes.special_trigger_chance))

\* mutant: current_hp is capped against the old total_hp
AddStatChangesOldTotal(stats, changes) ==
    Stats(normalized_stat(0, stats.total_hp, stats.current_hp + changes.current_hp),
          normalized_stat_inf(0, stats.total_hp + changes.total_hp),
          normalized_stat_inf(0, stats.armor + changes.armor),
          normalized_stat_inf(0, stats.magic_resistance + changes.magic_resistance),
          normalized_stat_inf(0, stats.physical_power + changes.physical_power),
          normalized_stat_inf(0, stats.magic_power + changes.magic_power),
          normalized_stat(0, Fx(100),
              stats.special_trigger_chance + changes.special_trigger_chance))

\* mutant: the special trigger chance is capped as a fraction (1) instead of
\* a percentage (100)
AddStatChangesUnitChance(stats, changes) ==
    LET total == normalized_stat_inf(0, stats.total_hp + changes.total_hp)
    IN  Stats(normalized_stat(0, total, stats.current_hp + changes.current_hp),
              total,
              normalized_stat_inf(0, stats.armor + changes.armor),
              normalized_stat_inf(0, stats.magic_resistance + changes.magic_resistance),
              normalized_stat_inf(0, stats.physical_power + changes.physical_power),
              normalized_stat_inf(0, stats.magic_power + changes.magic_power),
              normalized_stat(0, Fx(1),
                  stats.special_trigger_chance + changes.special_trigger_chance))

\* Stats.add_stat_changes: total_hp is normalised first, current_hp is then
\* capped against the new total_hp (new_stats["total_hp"])
add_stat_changes(stats, changes) ==
    LET total == normalized_stat_inf(0, stats.total_hp + changes.total_hp)
    IN  Stats(normalized_stat(0, total, stats.current_hp + changes.current_hp),
              total,
              normalized_stat_inf(0, stats.armor + changes.armor),
              normalized_stat_inf(0, stats.magic_resistance + changes.magic_resistance),
              normalized_stat_inf(0, stats.physical_power + changes.physical_power),
              normalized_stat_inf(0, stats.magic_power + changes.magic_power),
              normalized_stat(0, Fx(100),
                  stats.special_trigger_chance + changes.special_trigger_chance))

-----------------------------------------------------------------------------
(* utils.py: Damage, Attack, DamageStats, BaseCharacter                    *)

Damage(physical, magic) == [physical |-> physical, magic |-> magic]

\* Attack: an absent field (None) is the empty sequence, a present one a
\* one-element sequence
None == <<>>
Attack(damage, stat_updates_to_self) ==
    [damage |-> damage, stat_updates_to_self |-> stat_updates_to_self]

\* DamageStats(): all four counters start at 0
DamageStats == [damage_dealt |-> 0, damage_taken |-> 0,
                damage_mitigated |-> 0, kills |-> 0]

\* BaseCharacter.__init__
BaseCharacter(name, base_stats) ==
    [name |-> name, base_stats |-> base_stats, added_item_stats |-> ZeroStats,
     effective_stats |-> base_stats, items |-> <<>>, damage_stats |-> DamageStats]

\* BaseCharacter.basic_attack
basic_attack(char) ==
    Attack(<<Damage(char.effective_stats.physical_power, 0)>>, None)

\* characters.py: Ninja / Mage / Warrior .special_attack
special_attack(char) ==
    CASE char.name = "Ninja" ->
           Attack(<<Damage(Fx(40) + (5 * char.effective_stats.physical_power) \div 10
                                  + (5 * char.effective_stats.magic_power) \div 10,
                           0)>>, None)
      [] char.name = "Mage" ->
           Attack(<<Damage(0, Fx(1) + (125 * char.effective_stats.magic_power) \div 100)>>,
                  None)
      [] char.name = "Warrior" ->
           LET healing_done == Fx(50)
                               + (75 * char.effective_stats.physical_power) \div 100
                               + 3 * char.effective_stats.magic_power
           IN  Attack(None, <<Stats(healing_done, 0, 0, 0, 0, 0, 0)>>)

-----------------------------------------------------------------------------
(* utils.py: BaseItem, BaseCharacter.add_item; items.py                    *)

N_ITEMS == 3

\* BaseItem.__init__: is_passive_active defaults to True.  An item is held by
\* value: every add_item is given an item object of its own
BaseItem(name, base_item_stats) ==
    [name |-> name, base_item_stats |-> base_item_stats, is_passive_active |-> TRUE]

\* "Unique Passive" in item.passive_name: the sword and the cauldron
has_unique_passive(item) == item.name \in {"Enchanted Sword", "A magic cauldron"}

\* BaseItem.__eq__ (equal names) over the list: item in self.items
item_in(item, items) == \E i \in 1..Len(items) : items[i].name = item.name

\* items.py: calculate_effective_stats of the five items
calculate_effective_stats(item, character_stats) ==
    CASE item.name = "Enchanted Sword" ->
           LET passive_special_chance ==
                   IF item.is_passive_active
                   THEN Fx(5) + (25 * character_stats.special_trigger_chance) \div 100
                   ELSE 0
           IN  add_stat_changes(item.base_item_stats,
                                Stats(0, 0, 0, 0, 0, 0, passive_special_chance))
      [] item.name = "Shiny Staff" ->
           LET added_magic_power == Fx(1) + (5 * character_stats.magic_power) \div 10
           IN  add_stat_changes(item.base_item_stats,
                                Stats(0, 0, 0, 0, 0, added_magic_power, 0))
      [] item.name = "A magic cauldron" ->
           LET passive_hp == IF item.is_passive_active
                             THEN Fx(10) + (3 * character_stats.total_hp) \div 10
                             ELSE 0
           IN  add_stat_changes(item.base_item_stats,
                                Stats(passive_hp, passive_hp, 0, 0, 0, 0, 0))
      [] item.name \in {"A Pole", "A solid rock"} -> item.base_item_stats

\* mutant: the capacity check lets a fourth item through
IsFullAbove(items) == Len(items) > N_ITEMS

\* utils.py line 317: len(self.items) == N_ITEMS
is_full(items) == Len(items) = N_ITEMS

\* mutant: a second copy keeps its passive
PassiveStaysActive(item, items) == item

\* utils.py lines 320-321: the passive of a second copy of a unique-passive
\* item is switched off
deactivate(item, items) ==
    IF has_unique_passive(item) /\ item_in(item, items)
    THEN [item EXCEPT !.is_passive_active = FALSE]
    ELSE item

\* mutant: the item's stats are derived from the effective stats
DerivationInputEffective(char) == char.effective_stats

\* utils.py line 325: the stats handed to calculate_effective_stats
derivation_input(char) == char.base_stats

\* BaseCharacter.add_item: [raised, char, item], the character and the item
\* object after the call
add_item(char, item) ==
    IF is_full(char.items)
    THEN [raised |-> TRUE, char |-> char, item |-> item]
    ELSE
      LET held == deactivate(item, char.items)
          added == add_stat_changes(char.added_item_stats,
                       calculate_effective_stats(held, derivation_input(char)))
      IN  [raised |-> FALSE,
           char   |-> [char EXCEPT !.items = Append(@, held),
                                   !.added_item_stats = added,
                                   !.effective_stats =
                                       add_stat_changes(char.base_stats, added)],
           item   |-> held]

-----------------------------------------------------------------------------
(* utils.py: RngEngine.rng                                                 *)

\* random() < probability / 100 with random() in [0, 1): True can come out iff
\* probability > 0, False iff probability < 100
rng(probability) ==
    {b \in BOOLEAN : (b => probability > 0) /\ (~b => probability < Fx(100))}

-----------------------------------------------------------------------------
(* backend.py: the resolution engine                                       *)

\* mutant: the HP lost is returned with the wrong sign
CalculateDamageTakenSign(damage, character_stats) ==
    LET hp_lost ==
            (damage.physical
                - (damage.physical * character_stats.armor) \div Fx(100))
          + (damage.magic
                - (damage.magic * character_stats.magic_resistance) \div Fx(100))
    IN  Stats(hp_lost, 0, 0, 0, 0, 0, 0)

\* mutant: the HP lost has a floor at zero
CalculateDamageTakenFloor(damage, character_stats) ==
    LET hp_lost ==
            (damage.physical
                - (damage.physical * character_stats.armor) \div Fx(100))
          + (damage.magic
                - (damage.magic * character_stats.magic_resistance) \div Fx(100))
    IN  Stats(0 - Max(0, hp_lost), 0, 0, 0, 0, 0, 0)

\* calculate_damage_taken: Stats(current_hp = -hp_lost)
calculate_damage_taken(damage, character_stats) ==
    LET hp_lost ==
            (damage.physical
                - (damage.physical * character_stats.armor) \div Fx(100))
          + (damage.magic
                - (damage.magic * character_stats.magic_resistance) \div Fx(100))
    IN  Stats(0 - hp_lost, 0, 0, 0, 0, 0, 0)

\* mutant: an action without damage never misses
CalculateMissChanceNoDamage(damage, character_stats) ==
    IF damage.magic = 0 /\ damage.physical = 0
    THEN 0
    ELSE IF damage.magic > damage.physical
    THEN character_stats.magic_resistance \div 10
    ELSE character_stats.armor \div 10

\* calculate_miss_chance
calculate_miss_chance(damage, character_stats) ==
    IF damage.magic > damage.physical
    THEN character_stats.magic_resistance \div 10
    ELSE character_stats.armor \div 10

\* mutant: only the attacker is checked
AnyDeadAttackerOnly(your_character, opponent_character, is_your_turn_) ==
    IF is_your_turn_ THEN your_character.effective_stats.current_hp <= 0
                     ELSE opponent_character.effective_stats.current_hp <= 0

\* play_turn lines 89-90: any(char.effective_stats.current_hp <= 0 ...)
AnyDead(your_character, opponent_character, is_your_turn_) ==
    \/ your_character.effective_stats.current_hp <= 0
    \/ opponent_character.effective_stats.current_hp <= 0

NoTurn == [kind |-> "none", is_your_turn |-> FALSE, is_attack_special |-> FALSE,
           probabilities |-> <<>>, rolls |-> <<>>, attack |-> Attack(None, None)]

\* mutant: the special attack is used when the roll comes out false
ChosenAttackSwapped(attacking_char, is_attack_special) ==
    IF is_attack_special THEN basic_attack(attacking_char)
                         ELSE special_attack(attacking_char)

\* lines 100-101: the basic attack unless the special roll came out true
chosen_attack(attacking_char, is_attack_special) ==
    IF ~is_attack_special THEN basic_attack(attacking_char)
                          ELSE special_attack(attacking_char)

\* mutant: the self-effect also raises the attacker's total_hp
SelfEffectRaisesTotal(attacking_char, defending_char, stat_updates_to_self) ==
    [attacker |-> [attacking_char EXCEPT !.effective_stats =
                      add_stat_changes(@, [stat_updates_to_self EXCEPT
                                              !.total_hp = stat_updates_to_self.current_hp])],
     defender |-> defending_char]

\* mutant: the self-effect is merged into the defender
SelfEffectOnDefender(attacking_char, defending_char, stat_updates_to_self) ==
    [attacker |-> attacking_char,
     defender |-> [defending_char EXCEPT !.effective_stats =
                      add_stat_changes(@, stat_updates_to_self)]]

\* lines 103-106: the self-effect is merged into the attacker
self_effect(attacking_char, defending_char, stat_updates_to_self) ==
    [attacker |-> [attacking_char EXCEPT !.effective_stats =
                      add_stat_changes(@, stat_updates_to_self)],
     defender |-> defending_char]

\* mutant: a missed action still counts as damage dealt and taken
MissCountsDamage(attacking_char, defending_char, damage) ==
    [attacker |-> [attacking_char EXCEPT
                      !.damage_stats.damage_dealt = @ + damage.physical + damage.magic],
     defender |-> [defending_char EXCEPT
                      !.damage_stats.damage_taken = @ + damage.physical + damage.magic]]

\* lines 112-113: a miss only sets the description
miss(attacking_char, defending_char, damage) ==
    [attacker |-> attacking_char, defender |-> defending_char]

\* mutant: only the physical part is counted
TotalDamagePhysical(damage) == damage.physical

\* line 121
total_damage(damage) == damage.physical + damage.magic

\* mutant: a kill needs the HP to go below 0
IsKillBelowZero(stats) == stats.current_hp < 0

\* mutant: every landed hit counts as a kill
IsKillAlways(stats) == TRUE

\* line 126: defending_char.effective_stats.current_hp == 0
is_kill(stats) == stats.current_hp = 0

\* mutant: the defender's damage_taken counts the HP lost, not the raw damage
HitCountsHpLost(attacking_char, defending_char, damage) ==
    LET hp_update == calculate_damage_taken(damage, defending_char.effective_stats)
        new_stats == add_stat_changes(defending_char.effective_stats, hp_update)
    IN  [attacker |-> [attacking_char EXCEPT
                          !.damage_stats.damage_dealt = @ + total_damage(damage),
                          !.damage_stats.kills = IF is_kill(new_stats) THEN @ + 1 ELSE @],
         defender |-> [defending_char EXCEPT
                          !.effective_stats = new_stats,
                          !.damage_stats.damage_taken = @ + Abs(hp_update.current_hp),
                          !.damage_stats.damage_mitigated =
                              @ + (total_damage(damage) - Abs(hp_update.current_hp))]]

\* mutant: a negative HP loss is not applied
HitWithoutNegativeLoss(attacking_char, defending_char, damage) ==
    LET hp_update == calculate_damage_taken(damage, defending_char.effective_stats)
        applied == [hp_update EXCEPT !.current_hp = Min(0, @)]
        new_stats == add_stat_changes(defending_char.effective_stats, applied)
    IN  [attacker |-> [attacking_char EXCEPT
                          !.damage_stats.damage_dealt = @ + total_damage(damage),
                          !.damage_stats.kills = IF is_kill(new_stats) THEN @ + 1 ELSE @],
         defender |-> [defending_char EXCEPT
                          !.effective_stats = new_stats,
                          !.damage_stats.damage_taken = @ + total_damage(damage),
                          !.damage_stats.damage_mitigated =
                              @ + (total_damage(damage) - Abs(hp_update.current_hp))]]

\* lines 115-128: a landed hit
hit(attacking_char, defending_char, damage) ==
    LET hp_update == calculate_damage_taken(damage, defending_char.effective_stats)
        new_stats == add_stat_changes(defending_char.effective_stats, hp_update)
    IN  [attacker |-> [attacking_char EXCEPT
                          !.damage_stats.damage_dealt = @ + total_damage(damage),
                          !.damage_stats.kills = IF is_kill(new_stats) THEN @ + 1 ELSE @],
         defender |-> [defending_char EXCEPT
                          !.effective_stats = new_stats,
                          !.damage_stats.damage_taken = @ + total_damage(damage),
                          !.damage_stats.damage_mitigated =
                              @ + (total_damage(damage) - Abs(hp_update.current_hp))]]

\* mutant: the miss is decided by a random source of its own, not by a call
\* of rng_engine.rng
TurnOutcomesUnseeded(attacking_char, defending_char, is_your_turn_, is_attack_special, special_chance) ==
    LET attack == chosen_attack(attacking_char, is_attack_special)
        turn == [kind |-> "self", is_your_turn |-> is_your_turn_,
                 is_attack_special |-> is_attack_special,
                 probabilities |-> <<special_chance>>,
                 rolls |-> <<is_attack_special>>, attack |-> attack]
    IN  IF attack.stat_updates_to_self # None
        THEN LET o == self_effect(attacking_char, defending_char,
                                  attack.stat_updates_to_self[1])
             IN  {[attacker |-> o.attacker, defender |-> o.defender, turn |-> turn]}
        ELSE
          LET damage == attack.damage[1]
              miss_chance == calculate_miss_chance(damage, defending_char.effective_stats)
              probs == <<special_chance, miss_chance>>
          IN  { LET o == IF is_damage_missed
                         THEN miss(attacking_char, defending_char, damage)
                         ELSE hit(attacking_char, defending_char, damage)
                IN  [attacker |-> o.attacker,
                     defender |-> o.defender,
                     turn     |-> [turn EXCEPT
                                     !.kind = IF is_damage_missed THEN "miss" ELSE "hit",
                                     !.probabilities = probs]]
              : is_damage_missed \in rng(miss_chance) }

\* play_turn after the action was chosen (lines 103-128): the set of outcomes
\* [attacker, defender, turn], one per result of the miss roll; turn.rolls are
\* the results of the calls of rng_engine.rng, in order
TurnOutcomes(attacking_char, defending_char, is_your_turn_, is_attack_special, special_chance) ==
    LET attack == chosen_attack(attacking_char, is_attack_special)
        turn == [kind |-> "self", is_your_turn |-> is_your_turn_,
                 is_attack_special |-> is_attack_special,
                 probabilities |-> <<special_chance>>,
                 rolls |-> <<is_attack_special>>, attack |-> attack]
    IN  IF attack.stat_updates_to_self # None
        THEN LET o == self_effect(attacking_char, defending_char,
                                  attack.stat_updates_to_self[1])
             IN  {[attacker |-> o.attacker, defender |-> o.defender, turn |-> turn]}
        ELSE
          LET damage == attack.damage[1]
              miss_chance == calculate_miss_chance(damage, defending_char.effective_stats)
              probs == <<special_chance, miss_chance>>
          IN  { LET o == IF is_damage_missed
                         THEN miss(attacking_char, defending_char, damage)
                         ELSE hit(attacking_char, defending_char, damage)
                IN  [attacker |-> o.attacker,
                     defender |-> o.defender,
                     turn     |-> [turn EXCEPT
                                     !.kind = IF is_damage_missed THEN "miss" ELSE "hit",
                                     !.probabilities = probs,
                                     !.rolls = <<is_attack_special, is_damage_missed>>]]
              : is_damage_missed \in rng(miss_chance) }

\* play_turn: the set of outcomes [raised, your, opponent, turn]
play_turn(your_character, opponent_character, is_your_turn_) ==
    IF AnyDead(your_character, opponent_character, is_your_turn_)
    THEN {[raised |-> TRUE, your |-> your_character, opponent |-> opponent_character,
           turn |-> [NoTurn EXCEPT !.kind = "error", !.is_your_turn = is_your_turn_]]}
    ELSE
      LET attacking_char == IF is_your_turn_ THEN your_character ELSE opponent_character
          defending_char == IF is_your_turn_ THEN opponent_character ELSE your_character
          special_chance == attacking_char.effective_stats.special_trigger_chance
      IN  { [raised   |-> FALSE,
             your     |-> IF is_your_turn_ THEN o.attacker ELSE o.defender,
             opponent |-> IF is_your_turn_ THEN o.defender ELSE o.attacker,
             turn     |-> o.turn]
            : o \in UNION { TurnOutcomes(attacking_char, defending_char, is_your_turn_,
                                         is_attack_special, special_chance)
                            : is_attack_special \in rng(special_chance) } }

-----------------------------------------------------------------------------
(* Inputs: the characters read_data builds from the assignment files       *)

N_ROUNDS == 5
N_WINS == 3

\* bounds of the model
MaxChars == 3      \* characters of both teams together, one round on its own
MatchChars == 2    \* the same, for each round of a match
LiveChars == 2     \* the same, where termination is checked
MaxMatches == 2    \* n_matches of play_ranked
MaxDealt == 300    \* a round is followed while damage_dealt <= 30.0
MaxStat == 600     \* magnitude of the Stats fields merged in SpecStats (60.0)

Ninja   == BaseCharacter("Ninja",   Stats(Fx(20), Fx(20), 0, 0, Fx(10), 0, Fx(20)))
Warrior == BaseCharacter("Warrior", Stats(Fx(30), Fx(30), Fx(20), 0, Fx(10), 0, Fx(20)))
Mage    == BaseCharacter("Mage",    Stats(Fx(20), Fx(20), 0, Fx(50), 0, Fx(4), Fx(20)))
\* a character whose file gives it no HP left
Fainted == BaseCharacter("Ninja",   Stats(0, Fx(20), 0, 0, Fx(10), 0, Fx(20)))

Roster == {Ninja, Warrior, Mage, Fainted}

\* characters with an armor or a magic resistance above 100:
\* a wounded Ninja that never rolls its special attack, armor 150
Plated  == BaseCharacter("Ninja",   Stats(Fx(10), Fx(20), Fx(150), 0, Fx(10), 0, 0))
\* a Mage that always rolls its special attack, armor 250, magic resistance 150
Warded  == BaseCharacter("Mage",    Stats(Fx(10), Fx(20), Fx(250), Fx(150), 0, Fx(4), Fx(100)))

\* a character built from stats outside the range a merge keeps: a Ninja
\* with a special trigger chance of 150
Overcharged == BaseCharacter("Ninja", Stats(Fx(20), Fx(20), 0, 0, Fx(10), 0, Fx(150)))

\* a Warrior with a physical power of -80: its basic attack is a negative
\* damage and its special attack a healing of 50 - 60 = -10
Reckless == BaseCharacter("Warrior", Stats(Fx(10), Fx(20), 0, 0, 0 - Fx(80), 0, Fx(50)))

\* the characters of the rounds with stats out of range
WideRoster == {Ninja, Warrior, Reckless, Fainted}

\* the characters single turns are played between
TurnRoster == {Ninja, Warrior, Mage, Plated, Warded, Overcharged}

\* the characters the rounds of a match are drawn from
MatchRoster == {Ninja, Mage}

\* pairs <<your_team, opponent_team>> of non-empty teams over the characters
\* of `roster`, at most n characters in both teams together
TeamPairs(roster, n) ==
    UNION { [1..p[1] -> roster] \X [1..p[2] -> roster] :
            p \in {q \in (1..n) \X (1..n) : q[1] + q[2] <= n} }

AllAlive(team) == \A i \in 1..Len(team) : team[i].effective_stats.current_hp > 0

-----------------------------------------------------------------------------
(* backend.py: play_round                                                  *)

\* the while condition, line 160
LoopCond ==
    /\ your_char_idx < Len(your_team)
    /\ opponent_char_idx < Len(opponent_team)

\* mutant: the initiating side always moves first
LoadRoundYouFirst(pair, first) ==
    /\ your_team' = pair[1]
    /\ opponent_team' = pair[2]
    /\ your_char_idx' = 0
    /\ opponent_char_idx' = 0
    /\ is_your_turn' = TRUE
    /\ alive_at_start' = (AllAlive(pair[1]) /\ AllAlive(pair[2]))
    /\ last_turn' = NoTurn
    /\ UNCHANGED is_round_your_win

\* read_data on both assignments, lines 150-158
LoadRound(pair, first) ==
    /\ your_team' = pair[1]
    /\ opponent_team' = pair[2]
    /\ your_char_idx' = 0
    /\ opponent_char_idx' = 0
    /\ is_your_turn' = first
    /\ alive_at_start' = (AllAlive(pair[1]) /\ AllAlive(pair[2]))
    /\ last_turn' = NoTurn
    /\ UNCHANGED is_round_your_win

\* mutant: the index moves on whatever the character's HP
AdvanceAlways(char_idx, character) == char_idx + 1

\* mutant: a fallen character takes the next one with it
AdvanceSkipsNext(char_idx, character) ==
    IF character.effective_stats.current_hp <= 0 THEN char_idx + 2 ELSE char_idx

\* mutant: a character is taken out only below 0 HP
AdvanceBelowZero(char_idx, character) ==
    IF character.effective_stats.current_hp < 0 THEN char_idx + 1 ELSE char_idx

\* lines 172-177: the front index moves on when its character is down
advance(char_idx, character) ==
    IF character.effective_stats.current_hp <= 0 THEN char_idx + 1 ELSE char_idx

\* the model follows a round only while the damage_dealt of both front
\* characters is within MaxDealt
Capped ==
    /\ LoopCond
    /\ \/ Abs(your_team[your_char_idx + 1].damage_stats.damage_dealt) > MaxDealt
       \/ Abs(opponent_team[opponent_char_idx + 1].damage_stats.damage_dealt) > MaxDealt

\* one iteration of the while loop, lines 160-183
RoundTurn ==
    /\ pc = "turn"
    /\ LoopCond
    /\ ~Capped
    /\ LET your_character == your_team[your_char_idx + 1]
           opponent_character == opponent_team[opponent_char_idx + 1]
       IN  \E o \in play_turn(your_character, opponent_character, is_your_turn) :
             /\ last_turn' = o.turn
             /\ IF o.raised
                THEN /\ pc' = "error"
                     /\ UNCHANGED round_vars
                ELSE /\ pc' = "turn"
                     /\ your_team' = [your_team EXCEPT ![your_char_idx + 1] = o.your]
                     /\ opponent_team' =
                            [opponent_team EXCEPT ![opponent_char_idx + 1] = o.opponent]
                     /\ your_char_idx' = advance(your_char_idx, o.your)
                     /\ opponent_char_idx' = advance(opponent_char_idx, o.opponent)
                     /\ is_your_turn' = ~is_your_turn
                     /\ UNCHANGED <<is_round_your_win, alive_at_start>>
    /\ UNCHANGED <<stat_vars, engine_vars, item_vars, replay, match_vars, bot_vars>>

\* the return, line 185
RoundReturn ==
    /\ pc = "turn"
    /\ ~LoopCond
    /\ is_round_your_win' = (your_char_idx < opponent_char_idx)
    /\ pc' = "returned"
    /\ UNCHANGED <<your_team, opponent_team, your_char_idx, opponent_char_idx,
                   is_your_turn, alive_at_start, last_turn>>
    /\ UNCHANGED <<stat_vars, engine_vars, item_vars, replay, match_vars, bot_vars>>

-----------------------------------------------------------------------------
(* backend.py: play_match; new_code/auto_arcana_wars.py: play_ranked       *)

\* mutant: only the initiating side's wins end the match
IsMatchOverYoursOnly(wins, losses) == wins = N_WINS

\* is_match_over, backend.py line 228, auto_arcana_wars.py line 94
is_match_over(wins, losses) == wins = N_WINS \/ losses = N_WINS

\* mutant: the round is credited to both sides
TallyBoth(wins, losses, won) == <<wins + 1, losses + 1>>

\* backend.py lines 218-223, auto_arcana_wars.py lines 88-91
tally(wins, losses, won) ==
    IF won THEN <<wins + 1, losses>> ELSE <<wins, losses + 1>>

\* mutant: the loser of the round moves first in the next one
NextFirstLoser(first, won) == ~won

\* backend.py line 226, auto_arcana_wars.py line 93
next_first(first, won) == ~first

\* play_match's result, backend.py line 234
match_outcome(wins, losses) == wins > losses

\* backend.py lines 204-206; auto_arcana_wars.py lines 54-62
StartMatch ==
    /\ pc = "match_start"
    /\ \E first \in rng(Fx(50)) :
         /\ is_your_turn_first' = first
         /\ first_mover_initial' = first
    /\ your_wins' = 0
    /\ opponent_wins' = 0
    /\ round' = 1
    /\ rounds_played' = 0
    /\ pc' = "round_start"
    /\ UNCHANGED <<mode, match_idx, match_result>>
    /\ UNCHANGED <<stat_vars, engine_vars, item_vars, replay, round_vars, last_turn, bot_vars>>

\* the call of play_round for this round: backend.py lines 209-214,
\* auto_arcana_wars.py lines 65-75
StartRound ==
    /\ pc = "round_start"
    /\ \E pair \in TeamPairs(MatchRoster, MatchChars) : LoadRound(pair, is_your_turn_first)
    /\ rounds_played' = rounds_played + 1
    /\ pc' = "turn"
    /\ UNCHANGED <<mode, match_idx, round, is_your_turn_first, first_mover_initial,
                   your_wins, opponent_wins, match_result>>
    /\ UNCHANGED <<stat_vars, engine_vars, item_vars, replay, bot_vars>>

\* after play_round returned: backend.py lines 218-234,
\* auto_arcana_wars.py lines 88-104
TallyRound ==
    /\ pc = "returned"
    /\ mode \in {"match", "ranked"}
    /\ LET t == tally(your_wins, opponent_wins, is_round_your_win)
           over == is_match_over(t[1], t[2])
           last == over \/ round = N_ROUNDS
       IN  /\ your_wins' = t[1]
           /\ opponent_wins' = t[2]
           /\ is_your_turn_first' = next_first(is_your_turn_first, is_round_your_win)
           /\ round' = IF last THEN round ELSE round + 1
           /\ match_result' =
                 IF ~last THEN match_result
                 ELSE IF mode = "match" THEN match_outcome(t[1], t[2])
                 ELSE IF over THEN is_round_your_win ELSE match_result
           /\ pc' = IF ~last THEN "round_start"
                    ELSE IF mode = "match" THEN "match_done"
                    ELSE IF match_idx < MaxMatches THEN "match_start"
                    ELSE "ranked_done"
           /\ match_idx' = IF last /\ mode = "ranked" /\ match_idx < MaxMatches
                           THEN match_idx + 1 ELSE match_idx
    /\ UNCHANGED <<mode, first_mover_initial, rounds_played>>
    /\ UNCHANGED <<stat_vars, engine_vars, item_vars, replay, round_vars, last_turn, bot_vars>>

-----------------------------------------------------------------------------
(* new_code/bot_utils.py: BaseBot; maxxer_bot.py, ordering_bot.py,         *)
(* your_bot.py, random_bot.py: the bots.  An assignment is a list of       *)
(* entries {"character": {"name", "stats"}, "items"}; an entry without the *)
(* key "items" has items = None, one with the key holds <<the list>>.      *)
(* List indices are the source's (from 0); sequences are indexed from 1.   *)

STAT_TO_MAX ==
    [ninja |-> "physical_power", mage |-> "magic_power", warrior |-> "hp"]

\* write_assignment lines 52-55: the copy of an entry without its "items"
without_items(entry) == [entry EXCEPT !.items = None]

strip_items(assignment) ==
    [char_idx \in 1..Len(assignment) |-> without_items(assignment[char_idx])]

\* mutant: the property hands out the stored list itself
ReturnedIsStored(shares, held) == shares \cup {held}

\* previous_character_ordering line 36, deepcopy: the list the caller gets
\* (and holds as held) is a new object
returned(shares, held) == shares \ {held}

\* write_assignment lines 52 and 56, deepcopy: the list stored is a new
\* object, neither the assignment passed nor any list handed out before
kept(shares, passed) == {}

\* mutant: the sixth round is accepted too
WriteAllowedPastLimit(initialized, round_counter) ==
    initialized /\ round_counter <= N_ROUNDS + 1

\* write_assignment line 48.  Before initialize the object has no attribute
\* current_round and the test itself fails (AttributeError)
write_allowed(initialized, round_counter) ==
    initialized /\ round_counter <= N_ROUNDS

write_error(initialized) ==
    IF initialized THEN "ValueError" ELSE "AttributeError"

\* write_assignment line 50-51: the file f"{current_round}.json" is written
write_file(dir, round_counter, assignment) ==
    [r \in DOMAIN dir \cup {round_counter} |->
        IF r = round_counter THEN assignment ELSE dir[r]]

\* list.sort(key=lambda x: x[1]) of (index, value) pairs: stable, and with
\* reverse=True equal values keep their order too
RECURSIVE sorted_insert(_, _, _)
sorted_insert(sorted, pair, reverse) ==
    IF sorted = <<>>
    THEN <<pair>>
    ELSE LET stays == IF reverse THEN sorted[1][2] >= pair[2]
                                 ELSE sorted[1][2] <= pair[2]
         IN  IF stays
             THEN <<sorted[1]>> \o sorted_insert(Tail(sorted), pair, reverse)
             ELSE <<pair>> \o sorted

RECURSIVE sort(_, _)
sort(pairs, reverse) ==
    IF pairs = <<>>
    THEN <<>>
    ELSE sorted_insert(sort(SubSeq(pairs, 1, Len(pairs) - 1), reverse),
                       pairs[Len(pairs)], reverse)

\* opponent_damage_dealers[k][0] for the list index k, None for the
\* IndexError of an index past the list
dealer_at(dealers, k) ==
    IF k < Len(dealers) THEN <<dealers[k + 1][1]>> ELSE None

Raised(error) == [raised |-> TRUE, error |-> error, assignment |-> <<>>]

Returned(assignment) == [raised |-> FALSE, error |-> "none", assignment |-> assignment]

\* the statements assignment[placement_idx] = previous_order[team_char_idx]
\* in the order the bot executes them; moves are pairs
\* <<team_char_idx, placement_idx or None>>
RECURSIVE place(_, _, _)
place(assignment, previous_order, moves) ==
    IF moves = <<>>
    THEN Returned(assignment)
    ELSE LET team_char_idx == moves[1][1]
             placement == moves[1][2]
         IN  IF placement = None \/ team_char_idx >= Len(previous_order)
             THEN Raised("IndexError")
             ELSE IF placement[1] >= Len(assignment)
             THEN Raised("IndexError")
             ELSE place([assignment EXCEPT ![placement[1] + 1] =
                                        previous_order[team_char_idx + 1]],
                        previous_order, Tail(moves))

\* assignment[char_idx]["items"] = self.items
give_items(outcome, char_idx, items) ==
    IF outcome.raised
    THEN outcome
    ELSE IF char_idx = None
    THEN Raised("IndexError")
    ELSE IF char_idx[1] >= Len(outcome.assignment)
    THEN Raised("IndexError")
    ELSE Returned([outcome.assignment EXCEPT ![char_idx[1] + 1].items = <<items>>])

\* --- MaxxerBot.make_assignment, maxxer_bot.py lines 44-59
candidates(assignment, character_to_max) ==
    {char_idx \in 0..(Len(assignment) - 1) :
        assignment[char_idx + 1].character.name = character_to_max}

\* max(candidates, key=...) returns the first of the largest
best_char_idx(assignment, character_to_max) ==
    LET found == candidates(assignment, character_to_max)
        stat(char_idx) ==
            assignment[char_idx + 1].character.stats[STAT_TO_MAX[character_to_max]]
    IN  IF found # {}
        THEN CHOOSE best \in found :
                \A other \in found :
                    \/ stat(other) < stat(best)
                    \/ stat(other) = stat(best) /\ best <= other
        ELSE 0

\* assignment.insert(-1, assignment.pop(char_idx)): insert(-1, x) puts x
\* before the last element of what pop left
pop_insert(assignment, char_idx) ==
    LET popped == assignment[char_idx + 1]
        rest == SubSeq(assignment, 1, char_idx) \o
                SubSeq(assignment, char_idx + 2, Len(assignment))
    IN  IF rest = <<>>
        THEN <<popped>>
        ELSE SubSeq(rest, 1, Len(rest) - 1) \o <<popped>> \o <<rest[Len(rest)]>>

MaxxerBot_make_assignment(previous, items, character_to_max) ==
    IF previous = <<>>
    THEN {Raised("IndexError")}
    ELSE LET assignment == pop_insert(previous, best_char_idx(previous, character_to_max))
         IN  {give_items(Returned(assignment), <<Len(assignment) - 1>>, items)}

\* --- HeadOnBot.make_assignment, ordering_bot.py lines 38-53; the lists are
\* the sorted ones
HeadOnBot_make_assignment(previous, items, team, opponent) ==
    IF team = <<>>
    THEN {give_items(Returned(previous), <<0>>, items)}
    ELSE LET moves == [k \in 1..Len(team) |-> <<team[k][1], dealer_at(opponent, k - 1)>>]
             placed == place(previous, previous, moves)
         IN  {give_items(placed, dealer_at(opponent, Len(opponent) - 1), items)}

\* --- YourBot.make_assignment, your_bot.py lines 41-61; the lists are the
\* sorted ones.  opponent_damage_dealers[-1] of an empty list is an IndexError
YourBot_make_assignment(previous, items, team, opponent) ==
    IF team = <<>>
    THEN {Returned(previous)}
    ELSE IF opponent = <<>>
    THEN {Raised("IndexError")}
    ELSE LET high_damage_oppo_char_idx == dealer_at(opponent, Len(opponent) - 1)
             moves == [i \in 1..Len(team) |->
                        IF i = 1
                        THEN <<team[1][1], high_damage_oppo_char_idx>>
                        ELSE <<team[i][1], dealer_at(opponent, i - 2)>>]
             placed == place(previous, previous, moves)
         IN  {give_items(placed, high_damage_oppo_char_idx, items)}

\* --- RandomBot.make_assignment, random_bot.py lines 39-47
\* the items appended to the character at char_idx, in the order of the loop
RECURSIVE appended_items(_, _, _)
appended_items(items, item_assignments, char_idx) ==
    IF items = <<>>
    THEN <<>>
    ELSE LET rest == appended_items(Tail(items), Tail(item_assignments), char_idx)
         IN  IF item_assignments[1] = char_idx THEN <<items[1]>> \o rest ELSE rest

with_appended(entry, items) ==
    IF items = <<>>
    THEN entry
    ELSE [entry EXCEPT !.items = <<(IF @ = None THEN <<>> ELSE @[1]) \o items>>]

\* rand.shuffle gives any order, rand.choice any character for each item
\* (choice(0, ...) with items to place is a ValueError)
RandomBot_make_assignment(previous, items) ==
    IF previous = <<>> /\ items # <<>>
    THEN {Raised("ValueError")}
    ELSE LET n == Len(previous)
         IN  {Returned([char_idx \in 1..n |->
                          with_appended(previous[shuffle[char_idx]],
                                        appended_items(items, item_assignments, char_idx - 1))]) :
                 shuffle \in Permutations(1..n),
                 item_assignments \in [1..Len(items) -> 0..(n - 1)]}

\* the lists as make_assignment leaves them: HeadOnBot and YourBot sort them
\* in place before anything can fail
sorted_lists(kind, team_dealers, survivability, opponent) ==
    CASE kind = "head_on" /\ team_dealers # <<>> ->
            [team_damage_dealers |-> sort(team_dealers, FALSE),
             team_survivability |-> survivability,
             opponent_damage_dealers |-> sort(opponent, FALSE)]
      [] kind = "your_bot" /\ survivability # <<>> ->
            [team_damage_dealers |-> team_dealers,
             team_survivability |-> sort(survivability, TRUE),
             opponent_damage_dealers |-> sort(opponent, FALSE)]
      [] OTHER ->
            [team_damage_dealers |-> team_dealers,
             team_survivability |-> survivability,
             opponent_damage_dealers |-> opponent]

make_assignment(the_bot, previous, items, lists) ==
    CASE the_bot.kind = "maxxer" ->
            MaxxerBot_make_assignment(previous, items, the_bot.character_to_max)
      [] the_bot.kind = "head_on" ->
            HeadOnBot_make_assignment(previous, items, lists.team_damage_dealers,
                                      lists.opponent_damage_dealers)
      [] the_bot.kind = "your_bot" ->
            YourBot_make_assignment(previous, items, lists.team_survivability,
                                    lists.opponent_damage_dealers)
      [] the_bot.kind = "random" ->
            RandomBot_make_assignment(previous, items)

\* process_previous_round_stats: enumerate(team) with the value the bot keeps
enumerated(values) == [k \in 1..Len(values) |-> <<k - 1, values[k]>>]

\* --- the bot as one object, for the two bots of play_ranked
\* BOT_MAPPING[algo]() followed by initialize(assignment_dir) on the roster
\* data, bot_utils.py lines 17-26
initialized(the_bot, data) ==
    [bot |-> the_bot, items |-> data.items,
     previous_character_ordering |-> data.characters,
     is_initialized |-> TRUE, current_round |-> 1, assignment_dir |-> <<>>,
     opponent_damage_dealers |-> <<>>, team_damage_dealers |-> <<>>,
     team_survivability |-> <<>>]

\* make_assignment(): the outcomes with the object as the call leaves it
made(b) ==
    LET lists == sorted_lists(b.bot.kind, b.team_damage_dealers, b.team_survivability,
                              b.opponent_damage_dealers)
        after == [b EXCEPT !.opponent_damage_dealers = lists.opponent_damage_dealers,
                           !.team_damage_dealers = lists.team_damage_dealers,
                           !.team_survivability = lists.team_survivability]
    IN  {[after |-> after, outcome |-> o] :
            o \in make_assignment(b.bot, b.previous_character_ordering, b.items, lists)}

\* write_assignment(assignment) where it is allowed, bot_utils.py lines 50-57
written(b, assignment) ==
    [b EXCEPT !.assignment_dir = write_file(@, b.current_round, assignment),
              !.previous_character_ordering = strip_items(assignment),
              !.current_round = @ + 1]

dealt_by(team) == [k \in 1..Len(team) |-> team[k].damage_stats.damage_dealt]

survivability_of(team) ==
    [k \in 1..Len(team) |->
        team[k].effective_stats.current_hp + team[k].effective_stats.armor]

\* process_previous_round_stats(is_your_win, your_team, opponent_team):
\* ordering_bot.py lines 67-70, your_bot.py lines 80-83, pass for the others
processed(b, is_your_win, team, opponent) ==
    CASE b.bot.kind = "head_on" ->
            [b EXCEPT !.opponent_damage_dealers = enumerated(dealt_by(opponent)),
                      !.team_damage_dealers = enumerated(dealt_by(team))]
      [] b.bot.kind = "your_bot" ->
            [b EXCEPT !.opponent_damage_dealers = enumerated(dealt_by(opponent)),
                      !.team_survivability = enumerated(survivability_of(team))]
      [] OTHER -> b

\* mutant: the opponent bot is told the initiating side's result
OpponentViewSameFlag(is_your_win, team, opponent) == <<is_your_win, opponent, team>>

\* auto_arcana_wars.py lines 80-81: what the opponent bot is passed
opponent_view(is_your_win, team, opponent) == <<~is_your_win, opponent, team>>

\* one call the driver made: the callee, the method, the callee's round
\* counter when it was called, the arguments and what came back
Call(callee, method, counter, args, result) ==
    [callee |-> callee, method |-> method, counter |-> counter, args |-> args,
     result |-> result]

-----------------------------------------------------------------------------
(* Specifications                                                          *)

IdleStats ==
    /\ s_pc = "idle"
    /\ s_base = ZeroStats
    /\ s_delta = ZeroStats
    /\ s_result = ZeroStats

IdleEngine ==
    /\ e_pc = "idle"
    /\ e_damage = Damage(0, 0)
    /\ e_stats = ZeroStats
    /\ e_hp_update = ZeroStats
    /\ e_miss_chance = 0

NoItem == BaseItem("", ZeroStats)

IdleItems ==
    /\ i_pc = "idle"
    /\ i_char = BaseCharacter("", ZeroStats)
    /\ i_item_in = NoItem
    /\ i_item = NoItem

\* no second execution
IdleReplay == replay = [pc |-> "idle"]

\* no bot: the state of the bot variables in the other specifications
\* the caller holds no list got from previous_character_ordering; shares
\* names the caller's lists ("copy", "assignment" for your_assignment) that
\* are the very object self._previous_character_ordering
NoCaller == [copy |-> None, shares |-> {}]

\* play_ranked has created no bot
NoRanked == [your_bot |-> None, opponent_bot |-> None, calls |-> <<>>]

IdleBot ==
    /\ bot = [kind |-> "none", character_to_max |-> ""]
    /\ team_data = [characters |-> <<>>, items |-> <<>>]
    /\ is_initialized = FALSE
    /\ bot_items = <<>>
    /\ previous_character_ordering = <<>>
    /\ current_round = 0
    /\ assignment_dir = <<>>
    /\ opponent_damage_dealers = <<>>
    /\ team_damage_dealers = <<>>
    /\ team_survivability = <<>>
    /\ your_assignment = None
    /\ last_call = "none"
    /\ last_error = "none"
    /\ caller = NoCaller
    /\ ranked = NoRanked

IdleMatch ==
    /\ match_idx = 1
    /\ round = 1
    /\ is_your_turn_first = FALSE
    /\ first_mover_initial = FALSE
    /\ your_wins = 0
    /\ opponent_wins = 0
    /\ rounds_played = 0
    /\ match_result = FALSE

IdleRound ==
    /\ your_team = <<>>
    /\ opponent_team = <<>>
    /\ your_char_idx = 0
    /\ opponent_char_idx = 0
    /\ is_your_turn = FALSE
    /\ is_round_your_win = FALSE
    /\ alive_at_start = FALSE
    /\ last_turn = NoTurn

\* --- play_match and play_ranked, from their first line
MatchStart(modes) ==
    /\ mode \in modes
    /\ pc = "match_start"
    /\ IdleMatch
    /\ IdleRound
    /\ IdleStats
    /\ IdleEngine
    /\ IdleItems
    /\ IdleBot

Init == MatchStart({"match", "ranked"}) /\ IdleReplay

Next == StartMatch \/ StartRound \/ RoundTurn \/ RoundReturn \/ TallyRound

Spec == Init /\ [][Next]_vars

\* --- one call of play_round, from its while loop, for the teams of `pairs`
RoundStart(pairs) ==
    /\ mode = "round"
    /\ pc = "turn"
    /\ IdleMatch
    /\ IdleStats
    /\ IdleEngine
    /\ IdleItems
    /\ IdleBot
    /\ \E pair \in pairs :
         /\ your_team = pair[1]
         /\ opponent_team = pair[2]
         /\ alive_at_start = (AllAlive(pair[1]) /\ AllAlive(pair[2]))
    /\ your_char_idx = 0
    /\ opponent_char_idx = 0
    /\ is_your_turn \in BOOLEAN
    /\ is_round_your_win = FALSE
    /\ last_turn = NoTurn

RoundFrom(pairs) == RoundStart(pairs) /\ IdleReplay

InitRound == RoundFrom(TeamPairs(Roster, MaxChars))

NextRound == RoundTurn \/ RoundReturn

SpecRound == InitRound /\ [][NextRound]_vars

\* the same with the fairness of sequential code: the loop takes its next
\* step whenever it has one
InitRoundFair == RoundFrom(TeamPairs(Roster, LiveChars))

FairSpecRound == InitRoundFair /\ [][NextRound]_vars /\ WF_vars(NextRound)

\* rounds between teams that may hold characters with stats out of range
InitWideRound == RoundFrom(TeamPairs(WideRoster, MaxChars))

SpecWideRound == InitWideRound /\ [][NextRound]_vars

FairSpecWideRound == InitWideRound /\ [][NextRound]_vars /\ WF_vars(NextRound)

\* --- one call of play_round, from its first line: the argument
\* is_your_turn_first is either side
InitPlayRound ==
    /\ mode = "round"
    /\ pc = "round_entry"
    /\ match_idx = 1
    /\ round = 1
    /\ is_your_turn_first \in BOOLEAN
    /\ first_mover_initial = is_your_turn_first
    /\ your_wins = 0
    /\ opponent_wins = 0
    /\ rounds_played = 0
    /\ match_result = FALSE
    /\ IdleRound
    /\ IdleStats
    /\ IdleEngine
    /\ IdleItems
    /\ IdleBot
    /\ IdleReplay

\* lines 150-154: the assignments are read, is_your_turn = is_your_turn_first
EnterRound ==
    /\ pc = "round_entry"
    /\ \E pair \in TeamPairs(WideRoster, MaxChars) : LoadRound(pair, is_your_turn_first)
    /\ pc' = "turn"
    /\ UNCHANGED <<stat_vars, engine_vars, item_vars, replay, match_vars, bot_vars>>

NextPlayRound == EnterRound \/ RoundTurn \/ RoundReturn

SpecPlayRound == InitPlayRound /\ [][NextPlayRound]_vars

\* --- play_turn, called turn after turn on one character of each side
InitTurn == RoundFrom({ <<<<a>>, <<b>>>> : a \in TurnRoster, b \in TurnRoster })

SpecTurn == InitTurn /\ [][NextRound]_vars

\* --- play_match (or play_round alone) executed twice: the second execution,
\* `replay`, is given the assignments the first one read and the results the
\* first one got from rng_engine.rng, one step behind it
Execution ==
    [pc |-> pc, round |-> round, is_your_turn_first |-> is_your_turn_first,
     your_wins |-> your_wins, opponent_wins |-> opponent_wins,
     rounds_played |-> rounds_played, match_result |-> match_result,
     your_team |-> your_team, opponent_team |-> opponent_team,
     your_char_idx |-> your_char_idx, opponent_char_idx |-> opponent_char_idx,
     is_your_turn |-> is_your_turn, is_round_your_win |-> is_round_your_win,
     last_turn |-> last_turn]

InitReplay ==
    /\ \/ MatchStart({"match"})
       \/ RoundStart({<<<<a>>, <<b>>>> : a, b \in TurnRoster})
    /\ replay = Execution

\* the second execution has taken as many steps as the first
Synced ==
    /\ replay.pc = pc
    /\ replay.is_your_turn = is_your_turn

\* backend.py lines 204-206, second execution
ReplayStartMatch ==
    /\ ~Synced
    /\ replay.pc = "match_start"
    /\ \E first \in rng(Fx(50)) :
         /\ first = is_your_turn_first
         /\ replay' = [replay EXCEPT !.pc = "round_start",
                                     !.is_your_turn_first = first,
                                     !.your_wins = 0,
                                     !.opponent_wins = 0,
                                     !.round = 1,
                                     !.rounds_played = 0]
    /\ UNCHANGED <<stat_vars, engine_vars, item_vars, match_vars, pc, round_vars, last_turn, bot_vars>>

\* backend.py lines 209-214 and 150-158, second execution: the same
\* assignments are read
ReplayStartRound ==
    /\ ~Synced
    /\ replay.pc = "round_start"
    /\ replay' = [replay EXCEPT !.pc = "turn",
                                !.your_team = your_team,
                                !.opponent_team = opponent_team,
                                !.your_char_idx = 0,
                                !.opponent_char_idx = 0,
                                !.is_your_turn = replay.is_your_turn_first,
                                !.last_turn = NoTurn,
                                !.rounds_played = @ + 1]
    /\ UNCHANGED <<stat_vars, engine_vars, item_vars, match_vars, pc, round_vars, last_turn, bot_vars>>

ReplayLoopCond ==
    /\ replay.your_char_idx < Len(replay.your_team)
    /\ replay.opponent_char_idx < Len(replay.opponent_team)

\* backend.py lines 160-183, second execution: the calls of rng return what
\* they returned in the first execution's turn
ReplayTurn ==
    /\ ~Synced
    /\ replay.pc = "turn"
    /\ ReplayLoopCond
    /\ \E o \in play_turn(replay.your_team[replay.your_char_idx + 1],
                          replay.opponent_team[replay.opponent_char_idx + 1],
                          replay.is_your_turn) :
         /\ o.turn.rolls = last_turn.rolls
         /\ replay' =
              IF o.raised
              THEN [replay EXCEPT !.pc = "error", !.last_turn = o.turn]
              ELSE [replay EXCEPT
                      !.last_turn = o.turn,
                      !.your_team[replay.your_char_idx + 1] = o.your,
                      !.opponent_team[replay.opponent_char_idx + 1] = o.opponent,
                      !.your_char_idx = advance(@, o.your),
                      !.opponent_char_idx = advance(@, o.opponent),
                      !.is_your_turn = ~@]
    /\ UNCHANGED <<stat_vars, engine_vars, item_vars, match_vars, pc, round_vars, last_turn, bot_vars>>

\* backend.py line 185, second execution
ReplayReturn ==
    /\ ~Synced
    /\ replay.pc = "turn"
    /\ ~ReplayLoopCond
    /\ replay' = [replay EXCEPT
                    !.pc = "returned",
                    !.is_round_your_win = (replay.your_char_idx < replay.opponent_char_idx)]
    /\ UNCHANGED <<stat_vars, engine_vars, item_vars, match_vars, pc, round_vars, last_turn, bot_vars>>

\* backend.py lines 218-234, second execution
ReplayTally ==
    /\ ~Synced
    /\ replay.pc = "returned"
    /\ LET t == tally(replay.your_wins, replay.opponent_wins, replay.is_round_your_win)
           over == is_match_over(t[1], t[2])
           last == over \/ replay.round = N_ROUNDS
       IN  replay' = [replay EXCEPT
                        !.your_wins = t[1],
                        !.opponent_wins = t[2],
                        !.is_your_turn_first =
                            next_first(@, replay.is_round_your_win),
                        !.round = IF last THEN @ ELSE @ + 1,
                        !.match_result = IF last THEN match_outcome(t[1], t[2]) ELSE @,
                        !.pc = IF last THEN "match_done" ELSE "round_start"]
    /\ UNCHANGED <<stat_vars, engine_vars, item_vars, match_vars, pc, round_vars, last_turn, bot_vars>>

ReplayStep ==
    ReplayStartMatch \/ ReplayStartRound \/ ReplayTurn \/ ReplayReturn \/ ReplayTally

\* the first execution takes a step once the second has caught up
NextReplay ==
    \/ Synced /\ StartMatch
    \/ Synced /\ StartRound
    \/ Synced /\ RoundTurn
    \/ Synced /\ RoundReturn
    \/ Synced /\ TallyRound
    \/ ReplayStep

SpecReplay == InitReplay /\ [][NextReplay]_vars

\* --- Stats.add_stat_changes on its own
StatInputs ==
    { Stats(c, t, a, m, p, q, s) :
        c \in {0 - MaxStat, 0, MaxStat \div 3, MaxStat},
        t \in {0 - MaxStat, 0 - (MaxStat \div 3), 0, MaxStat},
        a \in {0 - MaxStat, 0},
        m \in {0, MaxStat},
        p \in {0 - MaxStat, 0},
        q \in {0, MaxStat},
        s \in {0 - MaxStat, 0, MaxStat} }

InitStats ==
    /\ mode = "stats"
    /\ pc = "idle"
    /\ IdleMatch
    /\ IdleRound
    /\ IdleEngine
    /\ IdleItems
    /\ IdleBot
    /\ IdleReplay
    /\ s_pc = "input"
    /\ s_base \in StatInputs
    /\ s_delta = ZeroStats
    /\ s_result = ZeroStats

\* s_result = s_base.add_stat_changes(s_delta)
MergeStats ==
    /\ s_pc = "input"
    /\ \E changes \in StatInputs :
         /\ s_delta' = changes
         /\ s_result' = add_stat_changes(s_base, changes)
    /\ s_pc' = "merged"
    /\ UNCHANGED <<s_base, engine_vars, item_vars, replay, match_vars, pc, round_vars, last_turn, bot_vars>>

NextStats == MergeStats

SpecStats == InitStats /\ [][NextStats]_vars

\* --- BaseCharacter.add_item, called again and again on one character
EnchantedSword == BaseItem("Enchanted Sword", Stats(0, 0, 0, 0, Fx(5), 0, 0))
ShinyStaff     == BaseItem("Shiny Staff", Stats(0, 0, 0, 0, 0, Fx(2), 0))
MagicCauldron  == BaseItem("A magic cauldron", Stats(0, 0, 0, Fx(10), 0, 0, 0))
Pole           == BaseItem("A Pole", Stats(0, 0, 0, 0, Fx(3), 0, 0))
SolidRock      == BaseItem("A solid rock", Stats(Fx(10), Fx(10), Fx(10), 0, 0, 0, 0))
\* an item whose file gives it a negative stat
CursedPole     == BaseItem("A Pole", Stats(0, 0, 0, 0, 0 - Fx(20), 0, 0))

ItemPool == {EnchantedSword, ShinyStaff, MagicCauldron, Pole, SolidRock, CursedPole}

ItemRoster == {Ninja, Warrior, Mage}

InitItems ==
    /\ mode = "items"
    /\ pc = "idle"
    /\ IdleMatch
    /\ IdleRound
    /\ IdleStats
    /\ IdleEngine
    /\ IdleReplay
    /\ IdleBot
    /\ i_pc = "ready"
    /\ i_char \in ItemRoster
    /\ i_item_in = NoItem
    /\ i_item = NoItem

\* i_char.add_item(item); a caller may go on after the ValueError
AddItem ==
    /\ i_pc \in {"ready", "added", "raised"}
    /\ \E item \in ItemPool :
         LET r == add_item(i_char, item)
         IN  /\ i_item_in' = item
             /\ i_item' = r.item
             /\ i_char' = r.char
             /\ i_pc' = IF r.raised THEN "raised" ELSE "added"
    /\ UNCHANGED <<stat_vars, engine_vars, match_vars, pc, round_vars, last_turn, replay, bot_vars>>

NextItems == AddItem

SpecItems == InitItems /\ [][NextItems]_vars

\* --- calculate_damage_taken and calculate_miss_chance on their own
EngineDamages == { Damage(p, m) : p \in {0, Fx(50), Fx(100)}, m \in {0, Fx(50), Fx(100)} }

EngineStats ==
    { Stats(c, c, a, r, 0, 0, 0) :
        c \in {0, Fx(30)},
        a \in {0, Fx(20), Fx(25), Fx(150), Fx(1500)},
        r \in {0, Fx(50), Fx(150)} }

InitEngine ==
    /\ mode = "engine"
    /\ pc = "idle"
    /\ IdleMatch
    /\ IdleRound
    /\ IdleStats
    /\ IdleItems
    /\ IdleBot
    /\ IdleReplay
    /\ e_pc = "input"
    /\ e_damage \in EngineDamages
    /\ e_stats \in EngineStats
    /\ e_hp_update = ZeroStats
    /\ e_miss_chance = 0

\* e_hp_update = calculate_damage_taken(e_damage, e_stats)
ApplyDamageTaken ==
    /\ e_pc = "input"
    /\ e_hp_update' = calculate_damage_taken(e_damage, e_stats)
    /\ e_pc' = "damage_taken"
    /\ UNCHANGED <<e_damage, e_stats, e_miss_chance>>
    /\ UNCHANGED <<stat_vars, item_vars, replay, match_vars, pc, round_vars, last_turn, bot_vars>>

\* e_miss_chance = calculate_miss_chance(e_damage, e_stats)
ApplyMissChance ==
    /\ e_pc = "input"
    /\ e_miss_chance' = calculate_miss_chance(e_damage, e_stats)
    /\ e_pc' = "miss_chance"
    /\ UNCHANGED <<e_damage, e_stats, e_hp_update>>
    /\ UNCHANGED <<stat_vars, item_vars, replay, match_vars, pc, round_vars, last_turn, bot_vars>>

NextEngine == ApplyDamageTaken \/ ApplyMissChance

SpecEngine == InitEngine /\ [][NextEngine]_vars

\* --- one bot driven as play_ranked drives it (auto_arcana_wars.py lines
\* 59-81): the blank rosters, the bots of BOT_MAPPING and YourBot
RankedMatches == 1    \* n_matches of play_ranked where the bots are followed
OrderingRounds == 1   \* rounds written by the caller of SpecOrdering
BotChars == 2
BotItems == 4

Entry(name, physical_power, magic_power, hp) ==
    [character |-> [name |-> name,
                    stats |-> [physical_power |-> physical_power,
                               magic_power |-> magic_power, hp |-> hp]],
     items |-> None]

EntryPool ==
    {Entry("ninja", Fx(10), 0, Fx(20)), Entry("ninja", Fx(20), 0, Fx(20)),
     Entry("mage", 0, Fx(5), Fx(20))}

ItemNames == <<"Enchanted Sword", "Shiny Staff", "A magic cauldron", "A Pole", "Solid Rock">>

TeamData ==
    {[characters |-> characters, items |-> [i \in 1..n |-> ItemNames[((i - 1) % Len(ItemNames)) + 1]]] :
        characters \in UNION {[1..k -> EntryPool] : k \in 1..BotChars},
        n \in 0..BotItems}

Bots ==
    {[kind |-> "maxxer", character_to_max |-> c] : c \in {"ninja", "mage", "warrior"}}
    \cup {[kind |-> k, character_to_max |-> ""] : k \in {"head_on", "your_bot", "random"}}

\* what the bots read from the characters of the finished round
StatValues == {0, Fx(10)}

TeamValues(sizes) == UNION {[1..k -> StatValues] : k \in sizes}

\* the bot object after its __init__
NewBot(bots, data) ==
    /\ bot \in bots
    /\ team_data \in data
    /\ is_initialized = FALSE
    /\ bot_items = <<>>
    /\ previous_character_ordering = <<>>
    /\ current_round = 0
    /\ assignment_dir = <<>>
    /\ opponent_damage_dealers = <<>>
    /\ team_damage_dealers = <<>>
    /\ team_survivability = <<>>
    /\ your_assignment = None
    /\ last_call = "none"
    /\ last_error = "none"
    /\ caller = NoCaller
    /\ ranked = NoRanked

NoGame ==
    /\ pc = "idle"
    /\ IdleMatch
    /\ IdleRound
    /\ IdleStats
    /\ IdleEngine
    /\ IdleItems
    /\ IdleReplay

\* BaseBot.initialize, bot_utils.py lines 17-26; json.load builds new lists
Initialize ==
    /\ bot_items' = team_data.items
    /\ previous_character_ordering' = team_data.characters
    /\ is_initialized' = TRUE
    /\ current_round' = 1
    /\ last_call' = "initialize"
    /\ last_error' = "none"
    /\ caller' = [caller EXCEPT !.shares = {}]
    /\ UNCHANGED <<bot, team_data, assignment_dir, opponent_damage_dealers,
                   team_damage_dealers, team_survivability, your_assignment, ranked>>
    /\ UNCHANGED <<stat_vars, engine_vars, item_vars, match_vars, pc, round_vars, last_turn, replay>>

\* the assignment the driver passes to write_assignment: what make_assignment
\* returned, the blank roster if it has not been called
WriteArgument ==
    IF your_assignment = None THEN team_data.characters ELSE your_assignment[1]

\* BaseBot.write_assignment, bot_utils.py lines 48-57
WriteAssignment ==
    /\ last_call' = "write_assignment"
    /\ IF write_allowed(is_initialized, current_round)
       THEN /\ assignment_dir' = write_file(assignment_dir, current_round, WriteArgument)
            /\ previous_character_ordering' = strip_items(WriteArgument)
            /\ current_round' = current_round + 1
            /\ last_error' = "none"
            /\ caller' = [caller EXCEPT !.shares = kept(caller.shares, "assignment")]
       ELSE /\ last_error' = write_error(is_initialized)
            /\ UNCHANGED <<assignment_dir, previous_character_ordering, current_round, caller>>
    /\ UNCHANGED <<bot, team_data, is_initialized, bot_items, opponent_damage_dealers,
                   team_damage_dealers, team_survivability, your_assignment, ranked>>
    /\ UNCHANGED <<stat_vars, engine_vars, item_vars, match_vars, pc, round_vars, last_turn, replay>>

\* make_assignment of the bot's class; before initialize the first statement
\* (self.previous_character_ordering) is an AttributeError.  Every bot
\* rearranges in place the list the property handed out and returns it
MakeAssignment ==
    /\ last_call' = "make_assignment"
    /\ IF ~is_initialized
       THEN /\ last_error' = "AttributeError"
            /\ your_assignment' = None
            /\ UNCHANGED <<opponent_damage_dealers, team_damage_dealers, team_survivability,
                           previous_character_ordering, caller>>
       ELSE LET lists == sorted_lists(bot.kind, team_damage_dealers, team_survivability,
                                      opponent_damage_dealers)
            IN  /\ opponent_damage_dealers' = lists.opponent_damage_dealers
                /\ team_damage_dealers' = lists.team_damage_dealers
                /\ team_survivability' = lists.team_survivability
                /\ \E o \in make_assignment(bot, previous_character_ordering, bot_items, lists) :
                     LET shares == returned(caller.shares, "assignment")
                     IN  /\ last_error' = o.error
                         /\ your_assignment' = IF o.raised THEN None ELSE <<o.assignment>>
                         /\ caller' = [caller EXCEPT !.shares = shares]
                         /\ previous_character_ordering' =
                                IF "assignment" \in shares /\ ~o.raised
                                THEN o.assignment
                                ELSE previous_character_ordering
    /\ UNCHANGED <<bot, team_data, is_initialized, bot_items, current_round, assignment_dir, ranked>>
    /\ UNCHANGED <<stat_vars, engine_vars, item_vars, match_vars, pc, round_vars, last_turn, replay>>

\* process_previous_round_stats of the bot's class: your team of the round
\* (one character per roster entry) and an opponent team of any size;
\* your_values are damage_stats.damage_dealt for HeadOnBot and
\* effective_stats.current_hp + effective_stats.armor for YourBot
ProcessPreviousRoundStats ==
    /\ IF bot.kind \in {"head_on", "your_bot"}
       THEN \E your_values \in TeamValues({Len(team_data.characters)}),
               opponent_values \in TeamValues(1..(BotChars + 1)) :
              /\ opponent_damage_dealers' = enumerated(opponent_values)
              /\ IF bot.kind = "head_on"
                 THEN /\ team_damage_dealers' = enumerated(your_values)
                      /\ UNCHANGED team_survivability
                 ELSE /\ team_survivability' = enumerated(your_values)
                      /\ UNCHANGED team_damage_dealers
       ELSE UNCHANGED <<opponent_damage_dealers, team_damage_dealers, team_survivability>>
    /\ last_call' = "process_previous_round_stats"
    /\ last_error' = "none"
    /\ UNCHANGED <<bot, team_data, is_initialized, bot_items, previous_character_ordering,
                   current_round, assignment_dir, your_assignment, caller, ranked>>
    /\ UNCHANGED <<stat_vars, engine_vars, item_vars, match_vars, pc, round_vars, last_turn, replay>>

\* the life cycle: initialize, make_assignment and write_assignment in any
\* order, for the bots whose assignment is a function of the ordering
LifecycleBots == {b \in Bots : b.kind \in {"maxxer", "head_on"}}

LifecycleData == {d \in TeamData : Len(d.characters) = BotChars /\ Len(d.items) = 1}

InitBot ==
    /\ mode = "bot"
    /\ NoGame
    /\ NewBot(LifecycleBots, LifecycleData)

NextBot == Initialize \/ MakeAssignment \/ WriteAssignment

SpecBot == InitBot /\ [][NextBot]_vars

\* the strategies: every bot, initialized on every roster, between two rounds
InitStrategy ==
    /\ mode = "strategy"
    /\ NoGame
    /\ bot \in Bots
    /\ team_data \in TeamData
    /\ is_initialized = TRUE
    /\ bot_items = team_data.items
    /\ previous_character_ordering = team_data.characters
    /\ current_round = 1
    /\ assignment_dir = <<>>
    /\ opponent_damage_dealers = <<>>
    /\ team_damage_dealers = <<>>
    /\ team_survivability = <<>>
    /\ your_assignment = None
    /\ last_call = "initialize"
    /\ last_error = "none"
    /\ caller = NoCaller
    /\ ranked = NoRanked

NextStrategy == ProcessPreviousRoundStats \/ MakeAssignment

SpecStrategy == InitStrategy /\ [][NextStrategy]_vars

\* --- the caller of one bot reads previous_character_ordering and changes
\* the lists it holds, between the calls of the life cycle
\* what a caller does to a list of entries: another order, items on an entry
Mutations(list) ==
    {[char_idx \in 1..Len(list) |-> list[Len(list) + 1 - char_idx]],
     [list EXCEPT ![1].items = <<<<"A Pole">>>>]}

\* copy = bot.previous_character_ordering, bot_utils.py lines 28-36; before
\* initialize the attribute is missing
ReadOrdering ==
    /\ last_call' = "previous_character_ordering"
    /\ IF is_initialized
       THEN /\ caller' = [copy |-> <<previous_character_ordering>>,
                          shares |-> returned(caller.shares, "copy")]
            /\ last_error' = "none"
       ELSE /\ last_error' = "AttributeError"
            /\ UNCHANGED caller
    /\ UNCHANGED <<bot, team_data, is_initialized, bot_items, previous_character_ordering,
                   current_round, assignment_dir, opponent_damage_dealers,
                   team_damage_dealers, team_survivability, your_assignment, ranked>>
    /\ UNCHANGED <<stat_vars, engine_vars, item_vars, match_vars, pc, round_vars, last_turn, replay>>

\* the caller changes the list the property gave it; a list that is the
\* bot's own changes with it
MutateCopy ==
    /\ caller.copy # None
    /\ \E changed \in Mutations(caller.copy[1]) :
         /\ changed # caller.copy[1]
         /\ caller' = [caller EXCEPT !.copy = <<changed>>]
         /\ previous_character_ordering' =
                IF "copy" \in caller.shares THEN changed ELSE previous_character_ordering
         /\ your_assignment' =
                IF {"copy", "assignment"} \subseteq caller.shares
                THEN <<changed>> ELSE your_assignment
    /\ last_call' = "mutate_copy"
    /\ last_error' = "none"
    /\ UNCHANGED <<bot, team_data, is_initialized, bot_items, current_round, assignment_dir,
                   opponent_damage_dealers, team_damage_dealers, team_survivability, ranked>>
    /\ UNCHANGED <<stat_vars, engine_vars, item_vars, match_vars, pc, round_vars, last_turn, replay>>

\* the caller changes the assignment make_assignment gave it, before or
\* after it was written
MutateAssignment ==
    /\ your_assignment # None
    /\ \E changed \in Mutations(your_assignment[1]) :
         /\ changed # your_assignment[1]
         /\ your_assignment' = <<changed>>
         /\ previous_character_ordering' =
                IF "assignment" \in caller.shares THEN changed ELSE previous_character_ordering
         /\ caller' =
                IF {"copy", "assignment"} \subseteq caller.shares
                THEN [caller EXCEPT !.copy = <<changed>>] ELSE caller
    /\ last_call' = "mutate_assignment"
    /\ last_error' = "none"
    /\ UNCHANGED <<bot, team_data, is_initialized, bot_items, current_round, assignment_dir,
                   opponent_damage_dealers, team_damage_dealers, team_survivability, ranked>>
    /\ UNCHANGED <<stat_vars, engine_vars, item_vars, match_vars, pc, round_vars, last_turn, replay>>

OrderingBots == {b \in Bots : b.kind = "random" \/ b.character_to_max = "ninja"}

OrderingData ==
    {[characters |-> <<Entry("mage", 0, Fx(5), Fx(20)), Entry("ninja", Fx(10), 0, Fx(20))>>,
      items |-> <<"Enchanted Sword">>]}

InitOrdering ==
    /\ mode = "ordering"
    /\ NoGame
    /\ NewBot(OrderingBots, OrderingData)

\* the caller is followed through the first OrderingRounds rounds
NextOrdering ==
    \/ Initialize
    \/ current_round <= OrderingRounds /\ MakeAssignment
    \/ current_round <= OrderingRounds /\ WriteAssignment
    \/ ReadOrdering
    \/ MutateCopy
    \/ MutateAssignment

SpecOrdering == InitOrdering /\ [][NextOrdering]_vars

\* --- play_ranked with its two bots, auto_arcana_wars.py lines 54-104; the
\* calls of one iteration of the round loop are kept in ranked.calls
solo_vars == <<bot, team_data, is_initialized, bot_items, previous_character_ordering,
               current_round, assignment_dir, opponent_damage_dealers,
               team_damage_dealers, team_survivability, your_assignment,
               last_call, last_error, caller>>

RankedEntries == <<Entry("ninja", Fx(10), 0, Fx(20)), Entry("mage", 0, Fx(5), Fx(20))>>

\* team_data.json of a side: the first k entries and one item
RankedData ==
    {[characters |-> SubSeq(RankedEntries, 1, k), items |-> <<"Enchanted Sword">>] :
        k \in 1..(MatchChars - 1)}

RankedYourBots == {b \in Bots : b.character_to_max = "ninja"}

RankedOpponentBots == {b \in Bots : b.kind = "head_on"}

\* lines 54-62: the first mover is drawn, both bots are created and
\* initialized
RankedStartMatch ==
    /\ pc = "match_start"
    /\ \E first \in rng(Fx(50)) :
         /\ is_your_turn_first' = first
         /\ first_mover_initial' = first
    /\ your_wins' = 0
    /\ opponent_wins' = 0
    /\ round' = 1
    /\ rounds_played' = 0
    /\ \E yours \in RankedYourBots, theirs \in RankedOpponentBots,
          your_data \in RankedData, opponent_data \in RankedData :
         /\ Len(your_data.characters) + Len(opponent_data.characters) <= MatchChars
         /\ ranked' = [your_bot |-> initialized(yours, your_data),
                       opponent_bot |-> initialized(theirs, opponent_data),
                       calls |-> <<>>]
    /\ pc' = "your_make"
    /\ UNCHANGED <<mode, match_idx, match_result>>
    /\ UNCHANGED <<stat_vars, engine_vars, item_vars, replay, round_vars, last_turn, solo_vars>>

\* lines 65 and 67: make_assignment of one bot; an exception ends play_ranked
RankedMake ==
    /\ pc \in {"your_make", "opponent_make"}
    /\ LET callee == IF pc = "your_make" THEN "your_bot" ELSE "opponent_bot"
       IN  \E m \in made(ranked[callee]) :
             /\ ranked' = [ranked EXCEPT
                    ![callee] = m.after,
                    !.calls = Append(@, Call(callee, "make_assignment",
                                             ranked[callee].current_round, <<>>, m.outcome))]
             /\ pc' = IF m.outcome.raised THEN "crashed"
                      ELSE IF pc = "your_make" THEN "your_write" ELSE "opponent_write"
    /\ UNCHANGED <<stat_vars, engine_vars, item_vars, replay, match_vars, round_vars,
                   last_turn, solo_vars>>

\* lines 66 and 68: write_assignment of what make_assignment returned
RankedWrite ==
    /\ pc \in {"your_write", "opponent_write"}
    /\ LET callee == IF pc = "your_write" THEN "your_bot" ELSE "opponent_bot"
           b == ranked[callee]
           assignment == ranked.calls[Len(ranked.calls)].result.assignment
           allowed == write_allowed(b.is_initialized, b.current_round)
       IN  /\ ranked' = [ranked EXCEPT
                  ![callee] = IF allowed THEN written(b, assignment) ELSE b,
                  !.calls = Append(@, Call(callee, "write_assignment", b.current_round,
                                           <<assignment>>,
                                           IF allowed THEN Returned(<<>>)
                                           ELSE Raised(write_error(b.is_initialized))))]
           /\ pc' = IF ~allowed THEN "crashed"
                    ELSE IF pc = "your_write" THEN "opponent_make" ELSE "round_start"
    /\ UNCHANGED <<stat_vars, engine_vars, item_vars, replay, match_vars, round_vars,
                   last_turn, solo_vars>>

\* lines 70-75: play_round is called on the files f"{round}.json" of the two
\* directories; read_data builds one character for each entry of a file
RankedPlayRound ==
    /\ pc = "round_start"
    /\ round \in DOMAIN ranked.your_bot.assignment_dir
    /\ round \in DOMAIN ranked.opponent_bot.assignment_dir
    /\ LET your_file == ranked.your_bot.assignment_dir[round]
           opponent_file == ranked.opponent_bot.assignment_dir[round]
       IN  /\ \E pair \in TeamPairs(MatchRoster, MatchChars) :
                 /\ Len(pair[1]) = Len(your_file)
                 /\ Len(pair[2]) = Len(opponent_file)
                 /\ LoadRound(pair, is_your_turn_first)
           /\ ranked' = [ranked EXCEPT !.calls =
                  Append(@, Call("play_round", "play_round", round,
                                 <<your_file, opponent_file>>, Returned(<<>>)))]
    /\ rounds_played' = rounds_played + 1
    /\ pc' = "turn"
    /\ UNCHANGED <<mode, match_idx, round, is_your_turn_first, first_mover_initial,
                   your_wins, opponent_wins, match_result>>
    /\ UNCHANGED <<stat_vars, engine_vars, item_vars, replay, solo_vars>>

\* lines 76-81: each bot is given the result of the round
RankedProcessStats ==
    /\ mode = "ranked_bots"
    /\ pc \in {"returned", "opponent_stats"}
    /\ LET callee == IF pc = "returned" THEN "your_bot" ELSE "opponent_bot"
           args == IF pc = "returned"
                   THEN <<is_round_your_win, your_team, opponent_team>>
                   ELSE opponent_view(is_round_your_win, your_team, opponent_team)
       IN  ranked' = [ranked EXCEPT
              ![callee] = processed(@, args[1], args[2], args[3]),
              !.calls = Append(@, Call(callee, "process_previous_round_stats",
                                       ranked[callee].current_round, args, Returned(<<>>)))]
    /\ pc' = IF pc = "returned" THEN "opponent_stats" ELSE "tally"
    /\ UNCHANGED <<stat_vars, engine_vars, item_vars, replay, match_vars, round_vars,
                   last_turn, solo_vars>>

\* lines 88-104: the round is counted, the first mover changes sides, the
\* loop goes on or the match is over
RankedTally ==
    /\ pc = "tally"
    /\ LET t == tally(your_wins, opponent_wins, is_round_your_win)
           over == is_match_over(t[1], t[2])
           last == over \/ round = N_ROUNDS
       IN  /\ your_wins' = t[1]
           /\ opponent_wins' = t[2]
           /\ is_your_turn_first' = next_first(is_your_turn_first, is_round_your_win)
           /\ round' = IF last THEN round ELSE round + 1
           /\ match_result' = IF over THEN is_round_your_win ELSE match_result
           /\ pc' = IF ~last THEN "your_make"
                    ELSE IF match_idx < RankedMatches THEN "match_start"
                    ELSE "ranked_done"
           /\ match_idx' = IF last /\ match_idx < RankedMatches THEN match_idx + 1 ELSE match_idx
    /\ ranked' = [ranked EXCEPT !.calls = <<>>]
    /\ UNCHANGED <<mode, first_mover_initial, rounds_played>>
    /\ UNCHANGED <<stat_vars, engine_vars, item_vars, replay, round_vars, last_turn, solo_vars>>

InitRanked == MatchStart({"ranked_bots"}) /\ IdleReplay

NextRanked ==
    \/ RankedStartMatch
    \/ RankedMake
    \/ RankedWrite
    \/ RankedPlayRound
    \/ RoundTurn
    \/ RoundReturn
    \/ RankedProcessStats
    \/ RankedTally

SpecRanked == InitRanked /\ [][NextRanked]_vars

-----------------------------------------------------------------------------
(* Sanity of the fixed-point representation                                *)

Divides(d, n) == n % d = 0

\* every quotient formed for attacker a against defender d is exact
ExactAgainst(a, d) ==
    /\ Divides(10, 5 * a.effective_stats.physical_power)
    /\ Divides(10, 5 * a.effective_stats.magic_power)
    /\ Divides(100, 125 * a.effective_stats.magic_power)
    /\ Divides(100, 75 * a.effective_stats.physical_power)
    /\ Divides(10, d.effective_stats.armor)
    /\ Divides(10, d.effective_stats.magic_resistance)
    /\ \A attack \in {basic_attack(a), special_attack(a)} :
          attack.damage # None =>
            /\ Divides(Fx(100), attack.damage[1].physical * d.effective_stats.armor)
            /\ Divides(Fx(100), attack.damage[1].magic * d.effective_stats.magic_resistance)

ExactArithmetic ==
    /\ \A i \in 1..Len(your_team), j \in 1..Len(opponent_team) :
          /\ ExactAgainst(your_team[i], opponent_team[j])
          /\ ExactAgainst(opponent_team[j], your_team[i])
    /\ Divides(Fx(100), e_damage.physical * e_stats.armor)
    /\ Divides(Fx(100), e_damage.magic * e_stats.magic_resistance)
    /\ Divides(10, e_stats.armor)
    /\ Divides(10, e_stats.magic_resistance)
    /\ Divides(100, 25 * i_char.base_stats.special_trigger_chance)
    /\ Divides(10, 5 * i_char.base_stats.magic_power)
    /\ Divides(10, 3 * i_char.base_stats.total_hp)

-----------------------------------------------------------------------------
(* Claims about play_round                                                 *)

RoundOver ==
    \/ your_char_idx = Len(your_team)
    \/ opponent_char_idx = Len(opponent_team)

\* C1: when play_round returns, the win flag is true exactly when the
\* opponent team is the exhausted one (its front index reached its size while
\* the initiating side still has a character left), for all team sizes.
C1_WinFlagNamesExhaustedOpponent ==
    pc = "returned" =>
        (is_round_your_win <=>
            (/\ opponent_char_idx = Len(opponent_team)
             /\ your_char_idx < Len(your_team)))

\* C2 as stated: a round between living teams always reaches a state in which
\* one front index equals its team size, whatever the rolls and the stats
\* (as far as the model follows the round).
C2_RoundAlwaysTerminates ==
    alive_at_start => <>(RoundOver \/ Capped)

\* a step of the loop that is a landed hit taking HP from the defender
TurnLowersHp ==
    (pc = "turn" /\ LoopCond) =>
        /\ last_turn'.kind = "hit"
        /\ IF is_your_turn
           THEN opponent_team'[opponent_char_idx + 1].effective_stats.current_hp
                    < opponent_team[opponent_char_idx + 1].effective_stats.current_hp
           ELSE your_team'[your_char_idx + 1].effective_stats.current_hp
                    < your_team[your_char_idx + 1].effective_stats.current_hp

\* C2 amended: a round between living teams reaches a state in which one front
\* index equals its team size in every run in which, from some point on,
\* every turn is a landed hit that takes HP from the defender.
C2_TerminatesWhenHitsKeepLanding ==
    (alive_at_start /\ <>[][TurnLowersHp]_vars) => <>(RoundOver \/ Capped)

\* a round the initiating Warrior won on a landed hit after it had healed: it
\* lost more HP than the difference between its total and its current HP
C2_Witness ==
    /\ pc = "returned"
    /\ alive_at_start
    /\ last_turn.kind = "hit"
    /\ is_round_your_win
    /\ your_team[1].name = "Warrior"
    /\ your_team[1].effective_stats.current_hp
          + your_team[1].damage_stats.damage_taken
          - your_team[1].damage_stats.damage_mitigated
            > your_team[1].effective_stats.total_hp

OneOnOne == Len(your_team) = 1 /\ Len(opponent_team) = 1

\* the last turn, if any, was a basic attack that landed
NoSpecialNoMiss ==
    /\ last_turn.kind \in {"none", "hit"}
    /\ ~last_turn.is_attack_special

\* exactly one of the two characters is standing and the flag names its side
SurvivorFlagged ==
    /\ pc = "returned"
    /\ (your_team[1].effective_stats.current_hp > 0)
           # (opponent_team[1].effective_stats.current_hp > 0)
    /\ is_round_your_win <=> (your_team[1].effective_stats.current_hp > 0)

\* C3 as stated: a one-against-one round in which every roll comes out false
\* (basic attacks only, every attack lands) ends with the survivor's side
\* flagged as the winner.
C3_OneOnOneAlwaysEnds ==
    (OneOnOne /\ alive_at_start /\ []NoSpecialNoMiss) => <>SurvivorFlagged

\* the basic attack of a takes HP from d
BasicHurts(a, d) ==
    /\ a.effective_stats.physical_power > 0
    /\ d.effective_stats.armor < Fx(100)

\* C3 amended: a one-against-one round in which every roll comes out false
\* ends with the survivor's side flagged as the winner, provided the basic
\* attack of at least one of the two characters takes HP from the other
\* (physical_power > 0 against an armor below 100).
C3_OneOnOneEndsWhenABasicAttackHurts ==
    (/\ OneOnOne
     /\ alive_at_start
     /\ \/ BasicHurts(your_team[1], opponent_team[1])
        \/ BasicHurts(opponent_team[1], your_team[1])
     /\ []NoSpecialNoMiss) => <>SurvivorFlagged

\* two Ninjas, two basic attacks against one: only basic attacks that landed
\* give these counters
C3_Witness ==
    /\ SurvivorFlagged
    /\ OneOnOne
    /\ alive_at_start
    /\ is_round_your_win
    /\ your_team[1].damage_stats.damage_dealt = 2 * your_team[1].base_stats.physical_power
    /\ opponent_team[1].damage_stats.damage_dealt = opponent_team[1].base_stats.physical_power
    /\ your_team[1].base_stats.physical_power > 0
    /\ opponent_team[1].base_stats.physical_power > 0

-----------------------------------------------------------------------------
(* Claims about play_match and play_ranked                                 *)

\* the match that was being played is decided and no round of it is running
MatchEnded ==
    \/ pc \in {"match_done", "ranked_done"}
    \/ pc = "match_start" /\ match_idx > 1

RoundsCompleted ==
    IF pc \in {"turn", "returned"} THEN rounds_played - 1 ELSE rounds_played

-----------------------------------------------------------------------------
(* Claims about play_turn                                                  *)

FrontDown ==
    \/ your_team[your_char_idx + 1].effective_stats.current_hp <= 0
    \/ opponent_team[opponent_char_idx + 1].effective_stats.current_hp <= 0

\* C7: play_turn on an attacker or a defender with current_hp <= 0 fails, and
\* nothing changes: no character's effective_stats or damage_stats is
\* modified and no RNG draw is made.
C7_DeadCombatantRaises ==
    [][(pc = "turn" /\ LoopCond /\ FrontDown) =>
          /\ pc' = "error"
          /\ last_turn'.kind = "error"
          /\ last_turn'.probabilities = <<>>
          /\ your_team' = your_team
          /\ opponent_team' = opponent_team]_vars

\* the turn of a living attacker against a defender that is down has failed
C7_Witness ==
    /\ pc = "error"
    /\ last_turn.kind = "error"
    /\ last_turn.is_your_turn
    /\ your_team[your_char_idx + 1].effective_stats.current_hp > 0
    /\ opponent_team[opponent_char_idx + 1].effective_stats.current_hp <= 0

-----------------------------------------------------------------------------
(* Claims about Stats.add_stat_changes                                     *)

\* C8: every merge result has total_hp, armor, magic_resistance,
\* physical_power and magic_power >= 0 and special_trigger_chance in [0, 100].
C8_MergedFieldsInRange ==
    s_pc = "merged" =>
        /\ s_result.total_hp >= 0
        /\ s_result.armor >= 0
        /\ s_result.magic_resistance >= 0
        /\ s_result.physical_power >= 0
        /\ s_result.magic_power >= 0
        /\ s_result.special_trigger_chance >= 0
        /\ s_result.special_trigger_chance <= Fx(100)

\* a merge whose sums leave the range at both ends
C8_Witness ==
    /\ s_pc = "merged"
    /\ s_base.armor + s_delta.armor < 0
    /\ s_base.total_hp + s_delta.total_hp < 0
    /\ s_base.special_trigger_chance + s_delta.special_trigger_chance > Fx(100)

\* C9: the merged current_hp is clamp(base + delta, 0, T) with T the new
\* total_hp of the same merge, so 0 <= current_hp <= total_hp afterwards.
C9_CurrentHpCappedByNewTotal ==
    s_pc = "merged" =>
        LET sum == s_base.current_hp + s_delta.current_hp
            total == s_base.total_hp + s_delta.total_hp
            T == IF total < 0 THEN 0 ELSE total
        IN  /\ s_result.total_hp = T
            /\ s_result.current_hp = (IF sum < 0 THEN 0 ELSE IF sum > T THEN T ELSE sum)
            /\ 0 <= s_result.current_hp
            /\ s_result.current_hp <= s_result.total_hp

\* a merge whose delta lowers total_hp below the current HP, not to 0
C9_Witness ==
    /\ s_pc = "merged"
    /\ s_delta.total_hp < 0
    /\ s_result.total_hp > 0
    /\ s_result.total_hp < s_base.total_hp
    /\ s_base.current_hp + s_delta.current_hp > s_result.total_hp
    /\ s_result.current_hp = s_result.total_hp

\* C10 as stated: merging Stats() into any Stats value leaves all seven
\* fields unchanged.
C10_ZeroMergeIsIdentity ==
    (s_pc = "merged" /\ s_delta = ZeroStats) => s_result = s_base

\* what add_stat_changes establishes of its result
InRange(stats) ==
    /\ stats.total_hp >= 0
    /\ stats.current_hp >= 0
    /\ stats.current_hp <= stats.total_hp
    /\ stats.armor >= 0
    /\ stats.magic_resistance >= 0
    /\ stats.physical_power >= 0
    /\ stats.magic_power >= 0
    /\ stats.special_trigger_chance >= 0
    /\ stats.special_trigger_chance <= Fx(100)

\* C10 amended: merging Stats() into a Stats value whose fields are in range
\* (total_hp, armor, magic_resistance, physical_power, magic_power >= 0,
\* 0 <= current_hp <= total_hp, 0 <= special_trigger_chance <= 100) leaves
\* all seven fields unchanged.
C10_ZeroMergeIsIdentityInRange ==
    (s_pc = "merged" /\ s_delta = ZeroStats /\ InRange(s_base)) => s_result = s_base

\* Stats() merged into an in-range value with HP, power and a trigger chance
C10_Witness ==
    /\ s_pc = "merged"
    /\ s_delta = ZeroStats
    /\ InRange(s_base)
    /\ s_base.current_hp > 0
    /\ s_base.magic_power > 0
    /\ s_base.special_trigger_chance > 0

-----------------------------------------------------------------------------
(* Claims about calculate_damage_taken and calculate_miss_chance           *)

\* C11: calculate_damage_taken returns a Stats whose current_hp is
\* -(physical * (1 - armor/100) + magic * (1 - magic_resistance/100)) and
\* whose six other fields are zero, without a floor at zero: physical 100
\* against armor 25 is an HP loss of 75, against armor 150 one of -50.
C11_DamageTakenFormula ==
    e_pc = "damage_taken" =>
        /\ 100 * e_hp_update.current_hp =
               0 - (  e_damage.physical * (100 - e_stats.armor \div Scale)
                    + e_damage.magic * (100 - e_stats.magic_resistance \div Scale))
        /\ [e_hp_update EXCEPT !.current_hp = 0] = ZeroStats
        /\ (e_damage = Damage(Fx(100), 0) /\ e_stats.armor = Fx(25))
               => 0 - e_hp_update.current_hp = Fx(75)
        /\ (e_damage = Damage(Fx(100), 0) /\ e_stats.armor = Fx(150))
               => 0 - e_hp_update.current_hp = 0 - Fx(50)

\* the damage taken by a character with HP for physical 100 against armor
\* 150: the loss is negative
C11_Witness ==
    /\ e_pc = "damage_taken"
    /\ e_damage = Damage(Fx(100), 0)
    /\ e_stats.armor = Fx(150)
    /\ e_stats.current_hp > 0
    /\ e_hp_update.current_hp > 0

-----------------------------------------------------------------------------
(* Claims about the effects of play_turn                                   *)

\* a step that is one call of play_turn that did not raise
TurnTaken ==
    /\ pc = "turn"
    /\ LoopCond
    /\ is_your_turn' # is_your_turn

\* the two characters of that call, before and after it
AttackerBefore ==
    IF is_your_turn THEN your_team[your_char_idx + 1]
                    ELSE opponent_team[opponent_char_idx + 1]
DefenderBefore ==
    IF is_your_turn THEN opponent_team[opponent_char_idx + 1]
                    ELSE your_team[your_char_idx + 1]
AttackerAfter ==
    IF is_your_turn THEN your_team'[your_char_idx + 1]
                    ELSE opponent_team'[opponent_char_idx + 1]
DefenderAfter ==
    IF is_your_turn THEN opponent_team'[opponent_char_idx + 1]
                    ELSE your_team'[your_char_idx + 1]

\* the call was a landed hit
Landed ==
    /\ TurnTaken
    /\ last_turn'.kind = "hit"

\* the damage of the action of the call
LandedDamage == last_turn'.attack.damage[1]

\* the damage is of one kind and the defender's protection against that kind
\* exceeds 100
OverProtected(damage, stats) ==
    \/ damage.physical > 0 /\ damage.magic = 0 /\ stats.armor > Fx(100)
    \/ damage.magic > 0 /\ damage.physical = 0 /\ stats.magic_resistance > Fx(100)

\* the protection (in whole percent) that applies to a damage of one kind
ProtectionAgainst(damage, stats) ==
    IF damage.physical > 0 THEN stats.armor \div Scale
                           ELSE stats.magic_resistance \div Scale

\* C12 as stated: when the defender's armor (physical damage) or magic
\* resistance (magic damage) exceeds 100, a landed hit is amplified: the
\* defender's current_hp is not higher after the turn than before it and the
\* HP lost is at least the raw damage.
C12_OverProtectedHitAmplified ==
    [][(Landed /\ OverProtected(LandedDamage, DefenderBefore.effective_stats)) =>
          LET before == DefenderBefore.effective_stats.current_hp
              after == DefenderAfter.effective_stats.current_hp
          IN  /\ after <= before
              /\ before - after >= LandedDamage.physical + LandedDamage.magic]_vars

\* C12 amended: when the defender's armor (physical damage only) or magic
\* resistance (magic damage only) exceeds 100, a landed hit takes no HP: the
\* HP loss is raw * (1 - protection/100) < 0, and the defender's current_hp
\* after the turn is its current_hp plus raw * (protection/100 - 1), capped
\* at its total_hp (floored at 0); it is not lower than before when the
\* current_hp did not exceed the total_hp.
C12_OverProtectedHitHeals ==
    [][(Landed /\ OverProtected(LandedDamage, DefenderBefore.effective_stats)) =>
          LET stats == DefenderBefore.effective_stats
              before == stats.current_hp
              after == DefenderAfter.effective_stats.current_hp
              raw == LandedDamage.physical + LandedDamage.magic
              gain == raw * (ProtectionAgainst(LandedDamage, stats) - 100)
              T == IF stats.total_hp < 0 THEN 0 ELSE stats.total_hp
          IN  /\ gain > 0
              /\ 100 * after = (IF 100 * before + gain > 100 * T
                                THEN 100 * T ELSE 100 * before + gain)
              /\ before <= stats.total_hp => after >= before]_vars

\* your Ninja's basic attack has landed on a wounded opponent of armor above
\* 100, which now has more HP than it came with
C12_Witness ==
    /\ last_turn.kind = "hit"
    /\ last_turn.is_your_turn
    /\ last_turn.attack.damage[1].physical > 0
    /\ Len(opponent_team) = 1
    /\ opponent_team[1].effective_stats.armor > Fx(100)
    /\ opponent_team[1].damage_stats.damage_taken = last_turn.attack.damage[1].physical
    /\ opponent_team[1].effective_stats.current_hp > opponent_team[1].base_stats.current_hp

\* C14: the attacker uses its special attack iff the roll with probability
\* attacker.effective_stats.special_trigger_chance returned true, otherwise
\* its basic attack: physical damage equal to its effective physical_power,
\* no magic damage.
C14_SpecialIffRolled ==
    [][TurnTaken =>
          LET stats == AttackerBefore.effective_stats
          IN  /\ last_turn'.probabilities[1] = stats.special_trigger_chance
              /\ last_turn'.is_attack_special =>
                    /\ stats.special_trigger_chance > 0
                    /\ last_turn'.attack = special_attack(AttackerBefore)
              /\ ~last_turn'.is_attack_special =>
                    /\ stats.special_trigger_chance < Fx(100)
                    /\ last_turn'.attack.damage = <<Damage(stats.physical_power, 0)>>
                    /\ last_turn'.attack.stat_updates_to_self = None]_vars

\* a Mage whose special roll (probability 20) came out true has landed its
\* special attack, magic damage
C14_Witness ==
    /\ last_turn.kind = "hit"
    /\ last_turn.is_attack_special
    /\ last_turn.probabilities[1] = Fx(20)
    /\ last_turn.attack.damage[1].magic > 0
    /\ last_turn.attack.damage[1].physical = 0

\* C15: when a damaging action misses, the turn changes no state: the
\* effective_stats and the four damage_stats counters of both characters are
\* the same before and after.
C15_MissChangesNothing ==
    [][(TurnTaken /\ last_turn'.kind = "miss") =>
          /\ AttackerAfter.effective_stats = AttackerBefore.effective_stats
          /\ AttackerAfter.damage_stats = AttackerBefore.damage_stats
          /\ DefenderAfter.effective_stats = DefenderBefore.effective_stats
          /\ DefenderAfter.damage_stats = DefenderBefore.damage_stats
          /\ your_team' = your_team
          /\ opponent_team' = opponent_team]_vars

\* the first turn of a round, an attack with damage, has missed
C15_Witness ==
    /\ last_turn.kind = "miss"
    /\ last_turn.attack.damage[1].physical > 0
    /\ last_turn.probabilities[2] > 0
    /\ your_team[1].damage_stats = DamageStats
    /\ opponent_team[1].damage_stats = DamageStats
    /\ your_team[1].effective_stats = your_team[1].base_stats
    /\ opponent_team[1].effective_stats = opponent_team[1].base_stats

\* C16: a self-effect (the Warrior's special) is merged into the attacker's
\* effective_stats only: no miss roll is drawn, the defender's
\* effective_stats is unchanged, no damage_stats counter changes.
C16_SelfEffectOnAttackerOnly ==
    [][(TurnTaken /\ last_turn'.kind = "self") =>
          /\ last_turn'.attack.stat_updates_to_self # None
          /\ Len(last_turn'.probabilities) = 1
          /\ AttackerAfter.effective_stats =
                add_stat_changes(AttackerBefore.effective_stats,
                                 last_turn'.attack.stat_updates_to_self[1])
          /\ DefenderAfter.effective_stats = DefenderBefore.effective_stats
          /\ AttackerAfter.damage_stats = AttackerBefore.damage_stats
          /\ DefenderAfter.damage_stats = DefenderBefore.damage_stats]_vars

\* your Warrior, hit before, has healed itself back to its total_hp
C16_Witness ==
    /\ last_turn.kind = "self"
    /\ last_turn.is_your_turn
    /\ your_team[1].name = "Warrior"
    /\ your_team[1].damage_stats.damage_taken > your_team[1].damage_stats.damage_mitigated
    /\ your_team[1].effective_stats.current_hp = your_team[1].effective_stats.total_hp
    /\ opponent_team[1].damage_stats.damage_dealt > 0

\* C17: on a landed hit the attacker's damage_dealt and the defender's
\* damage_taken each grow by the raw total damage of the action (physical +
\* magic, before armor and magic resistance), whatever HP the defender loses.
C17_RawDamageCounted ==
    [][Landed =>
          LET raw == LandedDamage.physical + LandedDamage.magic
          IN  /\ AttackerAfter.damage_stats.damage_dealt
                    = AttackerBefore.damage_stats.damage_dealt + raw
              /\ DefenderAfter.damage_stats.damage_taken
                    = DefenderBefore.damage_stats.damage_taken + raw
              /\ AttackerAfter.damage_stats.damage_taken
                    = AttackerBefore.damage_stats.damage_taken
              /\ DefenderAfter.damage_stats.damage_dealt
                    = DefenderBefore.damage_stats.damage_dealt]_vars

\* your Mage's special attack (6 magic damage) has landed on a magic
\* resistance of 50: 6 is counted on both sides, the opponent lost 3 HP
C17_Witness ==
    /\ last_turn.kind = "hit"
    /\ last_turn.is_your_turn
    /\ last_turn.attack.damage[1] = Damage(0, Fx(6))
    /\ your_team[1].damage_stats.damage_dealt = Fx(6)
    /\ opponent_team[1].damage_stats.damage_taken = Fx(6)
    /\ opponent_team[1].effective_stats.current_hp
          = opponent_team[1].base_stats.current_hp - Fx(3)

\* C18: on a landed hit the defender's damage_mitigated grows by the raw
\* total damage minus the HP the defender actually lost in the turn (its
\* current_hp before the turn minus its current_hp after the merge), also
\* when the hit is lethal and the HP loss is cut short at 0.
C18_MitigatedIsRawMinusHpLost ==
    [][Landed =>
          LET raw == LandedDamage.physical + LandedDamage.magic
              lost == DefenderBefore.effective_stats.current_hp
                         - DefenderAfter.effective_stats.current_hp
          IN  DefenderAfter.damage_stats.damage_mitigated
                 = DefenderBefore.damage_stats.damage_mitigated + (raw - lost)]_vars

\* C19: in every state of a round every character's damage_mitigated is >= 0
\* and its kills is a non-negative integer, whatever the armor and the magic
\* resistance of the defenders.
C19_CountersNonNegative ==
    \A team \in {your_team, opponent_team} :
        \A i \in 1..Len(team) :
            /\ team[i].damage_stats.damage_mitigated >= 0
            /\ team[i].damage_stats.kills \in Nat

\* C20: in a turn the attacker's kills grows by exactly 1 iff the action
\* landed and the defender's current_hp is exactly 0 after the turn; in every
\* other case (miss, self-effect, defender survives) kills is unchanged.
C20_KillIffDefenderAtZero ==
    [][TurnTaken =>
          LET killed == /\ last_turn'.kind = "hit"
                        /\ DefenderAfter.effective_stats.current_hp = 0
          IN  /\ AttackerAfter.damage_stats.kills
                    = AttackerBefore.damage_stats.kills + (IF killed THEN 1 ELSE 0)
              /\ DefenderAfter.damage_stats.kills = DefenderBefore.damage_stats.kills]_vars

\* the opponent's attack took your character, which it had hit before without
\* taking it down, to 0 HP: one kill after more than one landed hit
C20_Witness ==
    /\ last_turn.kind = "hit"
    /\ ~last_turn.is_your_turn
    /\ your_team[1].effective_stats.current_hp = 0
    /\ opponent_team[1].damage_stats.kills = 1
    /\ your_team[1].damage_stats.kills = 0
    /\ opponent_team[1].damage_stats.damage_dealt
          > last_turn.attack.damage[1].physical + last_turn.attack.damage[1].magic
    /\ your_team[1].base_stats.current_hp > 0

\* what a turn leaves alone in a character: everything but current_hp and
\* damage_stats
SameButHp(before, after) ==
    /\ after.name = before.name
    /\ after.base_stats = before.base_stats
    /\ after.items = before.items
    /\ after.added_item_stats = before.added_item_stats
    /\ [after.effective_stats EXCEPT !.current_hp = 0]
          = [before.effective_stats EXCEPT !.current_hp = 0]

\* at most one of the two characters has another current_hp after the turn
OneHpChanged ==
    \/ AttackerAfter.effective_stats.current_hp = AttackerBefore.effective_stats.current_hp
    \/ DefenderAfter.effective_stats.current_hp = DefenderBefore.effective_stats.current_hp

\* C21 as stated: a turn changes no field of a character other than
\* effective_stats and damage_stats; base_stats, items and added_item_stats
\* of both are unchanged and within effective_stats only the current_hp of at
\* most one character changes.
C21_TurnChangesHpOnly ==
    [][TurnTaken =>
          /\ SameButHp(AttackerBefore, AttackerAfter)
          /\ SameButHp(DefenderBefore, DefenderAfter)
          /\ OneHpChanged]_vars

\* C21 amended: the same for two characters whose effective_stats are in the
\* range a merge keeps (total_hp, armor, magic_resistance, physical_power,
\* magic_power >= 0, 0 <= current_hp <= total_hp, 0 <= special_trigger_chance
\* <= 100); the merge of a turn normalises every field, so a field out of
\* range is changed along with current_hp.
C21_TurnChangesHpOnlyInRange ==
    [][(/\ TurnTaken
        /\ InRange(AttackerBefore.effective_stats)
        /\ InRange(DefenderBefore.effective_stats)) =>
          /\ SameButHp(AttackerBefore, AttackerAfter)
          /\ SameButHp(DefenderBefore, DefenderAfter)
          /\ OneHpChanged]_vars

\* your Warrior has healed itself after a hit: its current_hp is back at its
\* total_hp, which is the one it came with, as are its other stats
C21_Witness ==
    /\ last_turn.kind = "self"
    /\ last_turn.is_your_turn
    /\ your_team[1].damage_stats.damage_taken > your_team[1].damage_stats.damage_mitigated
    /\ your_team[1].effective_stats = your_team[1].base_stats
    /\ InRange(your_team[1].effective_stats)
    /\ InRange(opponent_team[1].effective_stats)

\* C25: every probability passed to the RNG during a match lies in
\* [0, 100]: each attacker's special_trigger_chance and each computed miss
\* chance, for all character and item stats (the first mover's 50 is a
\* literal).
C25_ProbabilitiesInRange ==
    \A i \in 1..Len(last_turn.probabilities) :
        /\ last_turn.probabilities[i] >= 0
        /\ last_turn.probabilities[i] <= Fx(100)

-----------------------------------------------------------------------------
(* Claims about BaseCharacter.add_item                                     *)

\* C22: add_item on a character that holds 3 items fails, whatever the item,
\* and changes nothing: items, added_item_stats, effective_stats and the
\* item's is_passive_active flag are as before; a character never holds more
\* than 3 items.
C22_FourthItemRaises ==
    [][/\ Len(i_char'.items) <= 3
       /\ Len(i_char.items) = 3 =>
             /\ i_pc' = "raised"
             /\ i_char'.items = i_char.items
             /\ i_char'.added_item_stats = i_char.added_item_stats
             /\ i_char'.effective_stats = i_char.effective_stats
             /\ i_item'.is_passive_active = i_item_in'.is_passive_active]_vars

\* a second Enchanted Sword was refused as fourth item, its passive still on
C22_Witness ==
    /\ i_pc = "raised"
    /\ Len(i_char.items) = 3
    /\ i_item_in = EnchantedSword
    /\ item_in(EnchantedSword, i_char.items)
    /\ i_item.is_passive_active

\* the held copies of `name` whose passive is active
ActiveCopies(items, name) ==
    {i \in 1..Len(items) : items[i].name = name /\ items[i].is_passive_active}

RECURSIVE CumulativeItemStats(_, _, _)
CumulativeItemStats(items, n, character_stats) ==
    IF n = 0 THEN ZeroStats
    ELSE add_stat_changes(CumulativeItemStats(items, n - 1, character_stats),
                          calculate_effective_stats(items[n], character_stats))

\* C24: after every add_item, effective_stats is base_stats merged with the
\* cumulative merge (from all-zero Stats) of the derived stats of all held
\* items in equip order, each derived from the character's base_stats.
C24_EffectiveStatsFromBaseAndItems ==
    i_pc \in {"added", "raised"} =>
        LET cumulative == CumulativeItemStats(i_char.items, Len(i_char.items),
                                              i_char.base_stats)
        IN  /\ i_char.added_item_stats = cumulative
            /\ i_char.effective_stats = add_stat_changes(i_char.base_stats, cumulative)

\* a Mage (magic_power 4) holds two Shiny Staffs: each adds 2 + 1 + 2 from
\* the base magic_power
C24_Witness ==
    /\ i_pc = "added"
    /\ i_char.name = "Mage"
    /\ i_char.items = <<ShinyStaff, ShinyStaff>>
    /\ i_char.effective_stats.magic_power = Fx(14)

-----------------------------------------------------------------------------
(* Claims about replay                                                     *)

\* the second execution has a next step that takes the recorded RNG results
ReplayCanFollow ==
    CASE replay.pc = "match_start" -> is_your_turn_first \in rng(Fx(50))
      [] replay.pc = "round_start" -> TRUE
      [] replay.pc = "returned" -> TRUE
      [] replay.pc = "turn" ->
            ReplayLoopCond =>
                \E o \in play_turn(replay.your_team[replay.your_char_idx + 1],
                                   replay.opponent_team[replay.opponent_char_idx + 1],
                                   replay.is_your_turn) :
                    o.turn.rolls = last_turn.rolls
      [] OTHER -> FALSE

-----------------------------------------------------------------------------
(* Claims about the bots                                                   *)

\* C27: write_assignment fails before initialize and when the round counter
\* is past N_ROUNDS, and a failed call writes no file and leaves the round
\* counter and the previous ordering as they were; initialize sets the
\* counter to 1 whenever it is called; from there the k-th call (k = 1..5)
\* succeeds, writes the file of round k and moves the counter to k + 1, and
\* the sixth fails.
C27_WriteAssignmentSequencing ==
    [][/\ last_call' = "initialize" => is_initialized' /\ current_round' = 1
       /\ is_initialized' => current_round' \in 1..(N_ROUNDS + 1)
       /\ last_call' = "write_assignment" =>
            IF is_initialized /\ current_round \in 1..N_ROUNDS
            THEN /\ last_error' = "none"
                 /\ current_round \in DOMAIN assignment_dir'
                 /\ assignment_dir'[current_round] = WriteArgument
                 /\ \A r \in DOMAIN assignment_dir' \ {current_round} :
                        r \in DOMAIN assignment_dir /\ assignment_dir'[r] = assignment_dir[r]
                 /\ current_round' = current_round + 1
            ELSE /\ last_error' # "none"
                 /\ UNCHANGED <<assignment_dir, current_round, previous_character_ordering>>
      ]_vars

\* five rounds were written and the sixth call failed
C27_Witness ==
    /\ last_call = "write_assignment"
    /\ last_error = "ValueError"
    /\ current_round = N_ROUNDS + 1
    /\ DOMAIN assignment_dir = 1..N_ROUNDS
    /\ assignment_dir[1] # assignment_dir[2]

IsPermutation(a, b) ==
    /\ Len(a) = Len(b)
    /\ \E p \in Permutations(1..Len(a)) : \A i \in 1..Len(a) : a[i] = b[p[i]]

\* C28: whatever make_assignment returns is a permutation of the previous
\* character ordering (every character of it exactly once), for every bot and
\* whatever process_previous_round_stats was given.
C28_AssignmentIsPermutation ==
    your_assignment # None =>
        IsPermutation(strip_items(your_assignment[1]), previous_character_ordering)

HeldItems(entry) == IF entry.items = None THEN 0 ELSE Len(entry.items[1])

RECURSIVE PlacedItems(_)
PlacedItems(assignment) ==
    IF assignment = <<>> THEN 0 ELSE HeldItems(assignment[1]) + PlacedItems(Tail(assignment))

\* C29: the assignment make_assignment returns has at most N_ITEMS items on
\* any character and at most as many items in all as the roster has.
C29_ItemsWithinLimits ==
    your_assignment # None =>
        /\ \A char_idx \in 1..Len(your_assignment[1]) :
                HeldItems(your_assignment[1][char_idx]) <= N_ITEMS
        /\ PlacedItems(your_assignment[1]) <= Len(bot_items)

OfArchetype(ordering, name) ==
    {ordering[char_idx] : char_idx \in {i \in 1..Len(ordering) : ordering[i].character.name = name}}

\* C30: the last character of MaxxerBot's assignment is the specified one (of
\* the archetype character_to_max with the highest STAT_TO_MAX value, the
\* character at index 0 if the team has none), and it holds all the items.
C30_MaxxerTargetLastWithAllItems ==
    bot.kind = "maxxer" /\ your_assignment # None =>
        LET last == your_assignment[1][Len(your_assignment[1])]
            targets == OfArchetype(previous_character_ordering, bot.character_to_max)
            stat(entry) == entry.character.stats[STAT_TO_MAX[bot.character_to_max]]
        IN  /\ IF targets = {}
               THEN without_items(last) = previous_character_ordering[1]
               ELSE /\ without_items(last) \in targets
                    /\ \A other \in targets : stat(other) <= stat(last)
            /\ last.items = <<bot_items>>

\* C31: once process_previous_round_stats has filled team_survivability,
\* the assignment YourBot.make_assignment returns has a team character of the
\* highest survivability at the position of an opponent character of the
\* highest damage_dealt, that entry holds all the items and no other entry
\* holds any.
C31_TopSurvivorFacesTopDealer ==
    /\ bot.kind = "your_bot"
    /\ last_call = "make_assignment"
    /\ team_survivability # <<>>
    /\ your_assignment # None
    => \E top \in 1..Len(team_survivability), dealer \in 1..Len(opponent_damage_dealers) :
          LET assignment == your_assignment[1]
              position == opponent_damage_dealers[dealer][1] + 1
              team_char == team_survivability[top][1] + 1
          IN  /\ \A other \in 1..Len(team_survivability) :
                    team_survivability[other][2] <= team_survivability[top][2]
              /\ \A other \in 1..Len(opponent_damage_dealers) :
                    opponent_damage_dealers[other][2] <= opponent_damage_dealers[dealer][2]
              /\ position \in 1..Len(assignment)
              /\ without_items(assignment[position]) = previous_character_ordering[team_char]
              /\ assignment[position].items = <<bot_items>>
              /\ \A other \in 1..Len(assignment) :
                    other # position => assignment[other].items = None

\* C32: a successful write_assignment(a) leaves as previous ordering a's
\* entries in a's order without their items; what previous_character_ordering
\* returns is the previous ordering; and no step other than a write_assignment
\* or an initialize (a change of the returned copy or of a, a make_assignment,
\* a read) changes the previous ordering.
C32_OrderingIsIndependentCopy ==
    [][/\ last_call' = "write_assignment" /\ last_error' = "none" =>
            previous_character_ordering' = strip_items(WriteArgument)
       /\ last_call' = "previous_character_ordering" /\ last_error' = "none" =>
            caller'.copy = <<previous_character_ordering>>
       /\ last_call' \notin {"write_assignment", "initialize"} =>
            UNCHANGED previous_character_ordering
      ]_vars

\* after the first write the caller changed both the copy it read and the
\* assignment it had written, and read again
C32_Witness ==
    /\ current_round = 2
    /\ last_call = "previous_character_ordering"
    /\ your_assignment # None
    /\ caller.copy # None
    /\ assignment_dir[1] # your_assignment[1]
    /\ strip_items(assignment_dir[1]) = caller.copy[1]
    /\ strip_items(your_assignment[1]) # caller.copy[1]

\* the calls of one iteration of play_ranked's round loop, in the order of
\* the claim
ExpectedCalls ==
    <<<<"your_bot", "make_assignment">>, <<"your_bot", "write_assignment">>,
      <<"opponent_bot", "make_assignment">>, <<"opponent_bot", "write_assignment">>,
      <<"play_round", "play_round">>,
      <<"your_bot", "process_previous_round_stats">>,
      <<"opponent_bot", "process_previous_round_stats">>>>

CallsInOrder ==
    /\ Len(ranked.calls) <= Len(ExpectedCalls)
    /\ \A k \in 1..Len(ranked.calls) :
          <<ranked.calls[k].callee, ranked.calls[k].method>> = ExpectedCalls[k]

\* the k-th call wrote, with the round counter at the loop's round, what the
\* call before it returned
WroteRound(k) ==
    /\ ~ranked.calls[k - 1].result.raised
    /\ ranked.calls[k].args = <<ranked.calls[k - 1].result.assignment>>
    /\ ranked.calls[k].counter = round
    /\ ~ranked.calls[k].result.raised

RankedOrder ==
    LET calls == ranked.calls
    IN  /\ CallsInOrder
        /\ pc \in {"turn", "returned"} => Len(calls) = 5
        /\ Len(calls) >= 2 => WroteRound(2)
        /\ Len(calls) >= 4 => WroteRound(4)
        /\ Len(calls) >= 5 =>
              /\ calls[5].counter = round
              /\ calls[5].args = <<calls[2].args[1], calls[4].args[1]>>
        /\ Len(calls) >= 6 =>
              calls[6].args = <<is_round_your_win, your_team, opponent_team>>
        /\ Len(calls) >= 7 =>
              calls[7].args = <<~is_round_your_win, opponent_team, your_team>>

\* C33: in every iteration of play_ranked's round loop the calls are, in this
\* order, make_assignment and write_assignment of your bot, the same of the
\* opponent bot, play_round, process_previous_round_stats of your bot and of
\* the opponent bot; each write is made with the bot's counter at the round
\* number and passes what make_assignment returned; play_round reads the two
\* files written in this iteration and no bot is called while it runs; the
\* two bots are told opposite results and the final teams in opposite order;
\* once a side has N_WINS wins no further call is made.
C33_BotsCalledBetweenRoundsInOrder ==
    [][/\ RankedOrder'
       /\ Len(ranked'.calls) > Len(ranked.calls) =>
             ~is_match_over(your_wins, opponent_wins)
       /\ is_match_over(your_wins', opponent_wins') /\ pc' # pc =>
             pc' \in {"match_start", "ranked_done"} /\ ranked'.calls = <<>>
      ]_vars

\* the second round was lost by the initiating side and both bots were told
C33_Witness ==
    /\ pc = "tally"
    /\ round = 2
    /\ Len(ranked.calls) = 7
    /\ ranked.calls[7].args[1]
    /\ ranked.calls[2].counter = 2
    /\ ranked.your_bot.current_round = 3
    /\ your_team # opponent_team

-----------------------------------------------------------------------------
(* Claims about the front indices, the order of the turns and the sums of  *)
(* the statistics of a round                                               *)

BothAdvance ==
    /\ your_char_idx' = your_char_idx + 1
    /\ opponent_char_idx' = opponent_char_idx + 1

\* C34, as stated: a round entered with every character above 0 HP comes to a
\* state in which one turn can leave both current characters at
\* current_hp <= 0, so that both front indices advance in that loop iteration.
C34_BothFallInOneTurn ==
    alive_at_start => <>(ENABLED <<NextRound /\ BothAdvance>>_vars)

\* C34, amended: no turn of any round advances both front indices: play_turn
\* changes the effective_stats of one character only, and both were above 0
\* when it was entered.
C34_AtMostOneFalls == [][~BothAdvance]_vars

\* a turn in which exactly one front character fell
C34_Witness ==
    /\ pc = "turn"
    /\ last_turn.kind = "hit"
    /\ your_char_idx = 1
    /\ opponent_char_idx = 0
    /\ your_team[1].effective_stats.current_hp = 0
    /\ opponent_team[1].effective_stats.current_hp > 0

FrontsAlive ==
    LoopCond =>
        /\ your_team[your_char_idx + 1].effective_stats.current_hp > 0
        /\ opponent_team[opponent_char_idx + 1].effective_stats.current_hp > 0

\* C35: when every character enters the round with current_hp > 0,
\* play_turn never raises, each front index stays or grows by one per turn
\* and never passes its team's size, and the characters of the next turn are
\* alive: a fallen character is behind its team's front index for good.
C35_NoDeadCombatant ==
    [][alive_at_start =>
        /\ pc' # "error"
        /\ your_char_idx' \in {your_char_idx, your_char_idx + 1}
        /\ opponent_char_idx' \in {opponent_char_idx, opponent_char_idx + 1}
        /\ your_char_idx' <= Len(your_team')
        /\ opponent_char_idx' <= Len(opponent_team')
        /\ FrontsAlive'
        /\ \A i \in 1..your_char_idx' : your_team'[i].effective_stats.current_hp <= 0
        /\ \A i \in 1..opponent_char_idx' : opponent_team'[i].effective_stats.current_hp <= 0
      ]_vars

\* a round of living characters returned after two characters of one team fell
C35_Witness ==
    /\ alive_at_start
    /\ pc = "returned"
    /\ your_char_idx = 2
    /\ opponent_char_idx = 0

\* C36: the first turn of a round is the first mover's, and every turn is
\* the turn of the side that did not have the one before, also right after a
\* character fell: the k-th turn is the first mover's iff k is odd.
C36_SidesAlternate ==
    [][/\ pc = "round_entry" /\ pc' = "turn" => is_your_turn' = is_your_turn_first
       /\ pc = "turn" /\ pc' = "turn" =>
            /\ last_turn'.is_your_turn = is_your_turn
            /\ is_your_turn' = ~is_your_turn
            /\ UNCHANGED is_your_turn_first
      ]_vars

\* the opponent has just defeated the first character and the next one attacks
C36_Witness ==
    /\ pc = "turn"
    /\ LoopCond
    /\ your_char_idx = 1
    /\ last_turn.kind = "hit"
    /\ ~last_turn.is_your_turn
    /\ your_team[1].effective_stats.current_hp = 0
    /\ is_your_turn

RECURSIVE SumKills(_)
SumKills(team) ==
    IF team = <<>> THEN 0 ELSE team[1].damage_stats.kills + SumKills(Tail(team))

RECURSIVE SumDealt(_)
SumDealt(team) ==
    IF team = <<>> THEN 0 ELSE team[1].damage_stats.damage_dealt + SumDealt(Tail(team))

RECURSIVE SumTaken(_)
SumTaken(team) ==
    IF team = <<>> THEN 0 ELSE team[1].damage_stats.damage_taken + SumTaken(Tail(team))

\* what the characters were built from (base_stats never changes)
EnteredWith(P(_)) ==
    /\ \A i \in 1..Len(your_team) : P(your_team[i].base_stats)
    /\ \A i \in 1..Len(opponent_team) : P(opponent_team[i].base_stats)

HpInRange(stats) == 0 < stats.current_hp /\ stats.current_hp <= stats.total_hp

PowerInRange(stats) == stats.physical_power >= 0 /\ stats.magic_power >= 0

HpAndPowerInRange(stats) == HpInRange(stats) /\ PowerInRange(stats)

KillsMatchRemovals ==
    /\ SumKills(your_team) = opponent_char_idx
    /\ SumKills(opponent_team) = your_char_idx

\* C37, as stated: when every character enters with 0 < current_hp <=
\* total_hp, the kills of one team add up to the other team's front index at
\* every point of the round.
C37_KillsMatchRemovals == EnteredWith(HpInRange) => KillsMatchRemovals

\* C37, amended: the same when, in addition, every character enters with
\* physical_power >= 0 and magic_power >= 0 (no self-effect is negative).
C37_KillsMatchRemovalsWithPower == EnteredWith(HpAndPowerInRange) => KillsMatchRemovals

\* both teams lost a character to a kill
C37_Witness ==
    /\ EnteredWith(HpAndPowerInRange)
    /\ your_char_idx = 1
    /\ opponent_char_idx = 1
    /\ SumKills(your_team) = 1
    /\ SumKills(opponent_team) = 1

DealtMatchesTaken ==
    /\ SumDealt(your_team) = SumTaken(opponent_team)
    /\ SumDealt(opponent_team) = SumTaken(your_team)

SumsNeverDecrease ==
    /\ SumDealt(your_team') >= SumDealt(your_team)
    /\ SumDealt(opponent_team') >= SumDealt(opponent_team)
    /\ SumTaken(your_team') >= SumTaken(your_team)
    /\ SumTaken(opponent_team') >= SumTaken(opponent_team)

\* C38, as stated: at every point of a round the damage_dealt of one team
\* adds up to the damage_taken of the other, and no turn lowers those sums.
C38_DealtMatchesTaken == [][DealtMatchesTaken' /\ SumsNeverDecrease]_vars

\* C38, amended: the sums are equal at every point of every round; no turn
\* lowers them when every character entered with physical_power >= 0 and
\* magic_power >= 0.
C38_DealtMatchesTakenWithPower ==
    [][/\ DealtMatchesTaken'
       /\ EnteredWith(PowerInRange) => SumsNeverDecrease
      ]_vars

\* two characters of one team have dealt damage to the other team
C38_Witness ==
    /\ EnteredWith(PowerInRange)
    /\ Len(your_team) = 2
    /\ your_team[1].damage_stats.damage_dealt > 0
    /\ your_team[2].damage_stats.damage_dealt > 0
    /\ SumDealt(your_team) = SumTaken(opponent_team)

-----------------------------------------------------------------------------
(* Claims about the order of add_item calls                                *)

\* the character as its constructor leaves it, before any add_item
unequipped(char) == BaseCharacter(char.name, char.base_stats)

\* the item as its constructor leaves it, the passive active
as_constructed(item) == [item EXCEPT !.is_passive_active = TRUE]

\* char.add_item(item) for every item of the list in turn
RECURSIVE equip_all(_, _)
equip_all(char, items) ==
    IF items = <<>> THEN char
    ELSE equip_all(add_item(char, Head(items)).char, Tail(items))

\* C39: for a character and the items it holds (up to 3), equipping the same
\* items on the same character in any other order gives the same
\* effective_stats.
C39_EquipOrderIrrelevant ==
    i_pc = "added" =>
        \A p \in Permutations(1..Len(i_char.items)) :
            equip_all(unequipped(i_char),
                      [k \in 1..Len(i_char.items) |->
                          as_constructed(i_char.items[p[k]])]).effective_stats
                = i_char.effective_stats

====
